---- MODULE Spec2Model ----
(***************************************************************************)
(* Model of the numeric linear-algebra core of Linear-Algebra-for-Robotics *)
(* (matrix.ts and transforms.ts, carried in src/README.md lines 69-802).   *)
(*                                                                         *)
(* Numbers.  A JavaScript number is modelled as an exact decimal-scaled    *)
(* rational <<n, d, e>> standing for (n / d) * 10^e, kept in the canonical *)
(* form computed by Norm.  The exponent keeps the magnitudes around the    *)
(* library's 1e-10 tolerance representable with TLC's 32-bit integers.     *)
(* Arithmetic is exact: IEEE-754 rounding is not modelled, and an          *)
(* operation whose exact result does not fit makes TLC stop with an        *)
(* overflow error instead of producing a wrong value.                      *)
(*                                                                         *)
(* Storage.  A Matrix is a number[][]: an outer array of references to     *)
(* row arrays.  heap.rows holds the row arrays (and plain number[]         *)
(* vectors), heap.mats the outer arrays; an address is an index.           *)
(***************************************************************************)
EXTENDS Integers, Sequences, FiniteSets, TLC

(***************************************************************************)
(* Bounds of the model.                                                    *)
(***************************************************************************)
MaxDim == 4
MaxVal == 2
MaxAngle == 11
MaxWrites == 1
MaxCalls == 2

(***************************************************************************)
(* Numbers                                                                 *)
(***************************************************************************)
RECURSIVE GCD(_, _)
GCD(a, b) == IF b = 0 THEN a ELSE GCD(b, a % b)

IAbs(x) == IF x < 0 THEN -x ELSE x

RECURSIVE Pow10(_)
Pow10(k) == IF k = 0 THEN 1 ELSE 10 * Pow10(k - 1)

\* n # 0, d > 0, gcd(n, d) = 1: move the factors 10 of n and the factors
\* 2 and 5 of d into the exponent.
RECURSIVE Strip(_, _, _)
Strip(n, d, e) ==
    IF n % 10 = 0 THEN Strip(n \div 10, d, e + 1)
    ELSE IF d % 10 = 0 THEN Strip(n, d \div 10, e - 1)
    ELSE IF d % 2 = 0 THEN Strip(n * 5, d \div 2, e - 1)
    ELSE IF d % 5 = 0 THEN Strip(n * 2, d \div 5, e - 1)
    ELSE <<n, d, e>>

\* The canonical form of (n / d) * 10^e, d # 0.
Norm(n, d, e) ==
    IF n = 0 THEN <<0, 1, 0>>
    ELSE LET s == IF d < 0 THEN -1 ELSE 1
             g == GCD(IAbs(n), IAbs(d))
         IN Strip((s * n) \div g, (s * d) \div g, e)

Q(n) == Norm(n, 1, 0)
Zero == Q(0)
One == Q(1)

NNeg(x) == <<-x[1], x[2], x[3]>>
NAbs(x) == <<IAbs(x[1]), x[2], x[3]>>
NMul(x, y) == Norm(x[1] * y[1], x[2] * y[2], x[3] + y[3])
NDiv(x, y) == Norm(x[1] * y[2], x[2] * y[1], x[3] - y[3])
NAdd(x, y) ==
    IF x[1] = 0 THEN y
    ELSE IF y[1] = 0 THEN x
    ELSE LET e == IF x[3] < y[3] THEN x[3] ELSE y[3]
         IN Norm(x[1] * Pow10(x[3] - e) * y[2] + y[1] * Pow10(y[3] - e) * x[2],
                 x[2] * y[2], e)
NSub(x, y) == NAdd(x, NNeg(y))

\* L * 10^g < R and L < R * 10^g for naturals, without forming the power.
RECURSIVE LtScaledLeft(_, _, _)
LtScaledLeft(L, g, R) ==
    IF g = 0 THEN L < R
    ELSE IF L >= R THEN FALSE
    ELSE LtScaledLeft(L, g - 1, (R + 9) \div 10)

RECURSIVE LtScaledRight(_, _, _)
LtScaledRight(L, R, g) ==
    IF g = 0 THEN L < R
    ELSE IF L < R THEN TRUE
    ELSE LtScaledRight(L \div 10, R, g - 1)

\* x < y for x, y >= 0.
PosLt(x, y) ==
    IF y[1] = 0 THEN FALSE
    ELSE IF x[1] = 0 THEN TRUE
    ELSE IF x[3] >= y[3]
         THEN LtScaledLeft(x[1] * y[2], x[3] - y[3], y[1] * x[2])
         ELSE LtScaledRight(x[1] * y[2], y[1] * x[2], y[3] - x[3])

NLt(x, y) ==
    IF x[1] < 0
    THEN IF y[1] < 0 THEN PosLt(NAbs(y), NAbs(x)) ELSE TRUE
    ELSE IF y[1] < 0 THEN FALSE ELSE PosLt(x, y)
NGt(x, y) == NLt(y, x)

\* The literal 1e-10 of determinant's and inverse's singularity tests.
Tol == Norm(1, 1, -10)

(***************************************************************************)
(* matrix.ts: pure functions on matrix values.  A matrix value is a        *)
(* sequence of rows, a row a sequence of numbers.  A call either returns   *)
(* Ok(value) or throws, modelled as Err(kind, shapes) where shapes are the *)
(* dimensions the thrown message names.                                    *)
(***************************************************************************)
Ok(v) == [kind |-> "ok", val |-> v]
Err(k, shapes) == [kind |-> k, shapes |-> shapes]

RECURSIVE SumTo(_, _)
\* The loop assigning each term instead of accumulating (sum = ... for sum += ...).
SumToLastOnly(f, n) == IF n = 0 THEN Zero ELSE f[n]

\* Left fold "let sum = 0; for (k = 1..n) sum += f[k]".
SumTo(f, n) == IF n = 0 THEN Zero ELSE NAdd(SumTo(f, n - 1), f[n])

zeros(rows, cols) == [i \in 1..rows |-> [j \in 1..cols |-> Zero]]

identity(size) ==
    [i \in 1..size |-> [j \in 1..size |-> IF i = j THEN One ELSE Zero]]

create(data) == [i \in 1..Len(data) |-> [j \in 1..Len(data[i]) |-> data[i][j]]]

copy(matrix) == [i \in 1..Len(matrix) |-> [j \in 1..Len(matrix[i]) |-> matrix[i][j]]]

dimensions(matrix) ==
    <<Len(matrix), IF Len(matrix) > 0 THEN Len(matrix[1]) ELSE 0>>

\* multiply with the inner loop stopping one term early (k < aCols - 1).
multiplyShortLoop(a, b) ==
    LET aRows == dimensions(a)[1]
        aCols == dimensions(a)[2]
        bRows == dimensions(b)[1]
        bCols == dimensions(b)[2]
    IN IF aCols # bRows
       THEN Err("DimensionMismatch", <<aRows, aCols, bRows, bCols>>)
       ELSE Ok([i \in 1..aRows |-> [j \in 1..bCols |->
                   SumTo([k \in 1..aCols |-> NMul(a[i][k], b[k][j])], aCols - 1)]])

\* multiply rejecting only a.cols > b.rows.
multiplyLaxCheck(a, b) ==
    LET aRows == dimensions(a)[1]
        aCols == dimensions(a)[2]
        bRows == dimensions(b)[1]
        bCols == dimensions(b)[2]
    IN IF aCols > bRows
       THEN Err("DimensionMismatch", <<aRows, aCols, bRows, bCols>>)
       ELSE Ok([i \in 1..aRows |-> [j \in 1..bCols |->
                   SumTo([k \in 1..aCols |-> NMul(a[i][k], b[k][j])], aCols)]])

multiply(a, b) ==
    LET aRows == dimensions(a)[1]
        aCols == dimensions(a)[2]
        bRows == dimensions(b)[1]
        bCols == dimensions(b)[2]
    IN IF aCols # bRows
       THEN Err("DimensionMismatch", <<aRows, aCols, bRows, bCols>>)
       ELSE Ok([i \in 1..aRows |-> [j \in 1..bCols |->
                   SumTo([k \in 1..aCols |-> NMul(a[i][k], b[k][j])], aCols)]])

\* transpose writing each row of the result in reverse.
transposeReversed(matrix) ==
    LET rows == dimensions(matrix)[1]
        cols == dimensions(matrix)[2]
    IN [j \in 1..cols |-> [i \in 1..rows |-> matrix[rows + 1 - i][j]]]

transpose(matrix) ==
    LET rows == dimensions(matrix)[1]
        cols == dimensions(matrix)[2]
    IN [j \in 1..cols |-> [i \in 1..rows |-> matrix[i][j]]]

add(a, b) ==
    LET aRows == dimensions(a)[1]
        aCols == dimensions(a)[2]
        bRows == dimensions(b)[1]
        bCols == dimensions(b)[2]
    IN IF aRows # bRows \/ aCols # bCols
       THEN Err("DimensionMismatch", <<aRows, aCols, bRows, bCols>>)
       ELSE Ok([i \in 1..aRows |-> [j \in 1..aCols |-> NAdd(a[i][j], b[i][j])]])

subtract(a, b) ==
    LET aRows == dimensions(a)[1]
        aCols == dimensions(a)[2]
        bRows == dimensions(b)[1]
        bCols == dimensions(b)[2]
    IN IF aRows # bRows \/ aCols # bCols
       THEN Err("DimensionMismatch", <<aRows, aCols, bRows, bCols>>)
       ELSE Ok([i \in 1..aRows |-> [j \in 1..aCols |-> NSub(a[i][j], b[i][j])]])

scale(matrix, scalar) ==
    [i \in 1..Len(matrix) |-> [j \in 1..Len(matrix[i]) |-> NMul(matrix[i][j], scalar)]]

\* matrix.filter((_, i) => i !== row).map(r => r.filter((_, j) => j !== col)),
\* with 1-based row and col.
minor(matrix, row, col) ==
    [i \in 1..(Len(matrix) - 1) |->
        LET r == matrix[IF i < row THEN i ELSE i + 1]
        IN [j \in 1..(Len(r) - 1) |-> r[IF j < col THEN j ELSE j + 1]]]

\* The cofactor sign lost: every term of the expansion added.
PowMinusOneAlwaysPlus(j) == One

\* Math.pow(-1, j) for the 0-based column index j.
PowMinusOne(j) == IF j % 2 = 0 THEN One ELSE Q(-1)

\* determinant of a square matrix: the closed forms and the cofactor loop.
RECURSIVE detSquare(_)
detSquare(m) ==
    LET size == Len(m)
    IN IF size = 1 THEN m[1][1]
       ELSE IF size = 2
       THEN NSub(NMul(m[1][1], m[2][2]), NMul(m[1][2], m[2][1]))
       ELSE IF size = 3
       THEN NAdd(NSub(
                NMul(m[1][1], NSub(NMul(m[2][2], m[3][3]), NMul(m[2][3], m[3][2]))),
                NMul(m[1][2], NSub(NMul(m[2][1], m[3][3]), NMul(m[2][3], m[3][1])))),
                NMul(m[1][3], NSub(NMul(m[2][1], m[3][2]), NMul(m[2][2], m[3][1]))))
       ELSE SumTo([j \in 1..size |->
                     NMul(NMul(PowMinusOne(j - 1), m[1][j]), detSquare(minor(m, 1, j)))],
                  size)

determinant(matrix) ==
    LET rows == dimensions(matrix)[1]
        cols == dimensions(matrix)[2]
    IN IF rows # cols THEN Err("NotSquare", <<rows, cols>>)
       ELSE Ok(detSquare(matrix))

\* The inner loop started at the second column.
applyToVectorFromSecondColumn(matrix, vector) ==
    LET rows == dimensions(matrix)[1]
        cols == dimensions(matrix)[2]
    IN IF cols # Len(vector)
       THEN Err("DimensionMismatch", <<rows, cols, Len(vector)>>)
       ELSE Ok([i \in 1..rows |->
                   SumTo([j \in 1..cols |->
                            IF j = 1 THEN Zero ELSE NMul(matrix[i][j], vector[j])], cols)])

applyToVector(matrix, vector) ==
    LET rows == dimensions(matrix)[1]
        cols == dimensions(matrix)[2]
    IN IF cols # Len(vector)
       THEN Err("DimensionMismatch", <<rows, cols, Len(vector)>>)
       ELSE Ok([i \in 1..rows |->
                   SumTo([j \in 1..cols |-> NMul(matrix[i][j], vector[j])], cols)])

\* The 2x2 and 3x3 special cases of inverse, given det = determinant(matrix).
inverse2(m, det) ==
    << <<NDiv(m[2][2], det), NDiv(NNeg(m[1][2]), det)>>,
       <<NDiv(NNeg(m[2][1]), det), NDiv(m[1][1], det)>> >>

\* The 3x3 case returning the cofactor matrix itself, not its transpose.
inverse3NotTransposed(m, det) ==
    LET a == m[1][1]
        b == m[1][2]
        c == m[1][3]
        d == m[2][1]
        e == m[2][2]
        f == m[2][3]
        g == m[3][1]
        h == m[3][2]
        i == m[3][3]
        E(x1, x2, y1, y2) == NDiv(NSub(NMul(x1, x2), NMul(y1, y2)), det)
    IN << <<E(e, i, f, h), E(f, g, d, i), E(d, h, e, g)>>,
          <<E(c, h, b, i), E(a, i, c, g), E(b, g, a, h)>>,
          <<E(b, f, c, e), E(c, d, a, f), E(a, e, b, d)>> >>

inverse3(m, det) ==
    LET a == m[1][1]
        b == m[1][2]
        c == m[1][3]
        d == m[2][1]
        e == m[2][2]
        f == m[2][3]
        g == m[3][1]
        h == m[3][2]
        i == m[3][3]
        E(x1, x2, y1, y2) == NDiv(NSub(NMul(x1, x2), NMul(y1, y2)), det)
    IN << <<E(e, i, f, h), E(c, h, b, i), E(b, f, c, e)>>,
          <<E(f, g, d, i), E(a, i, c, g), E(c, d, a, f)>>,
          <<E(d, h, e, g), E(b, g, a, h), E(a, e, b, d)>> >>

(***************************************************************************)
(* transforms.ts.  An angle (a number of radians) is modelled by the       *)
(* point of the unit circle it names and its whole turns: the record       *)
(* [cos, sin, turns] stands for Arg(cos, sin) + turns * 2pi with Arg in    *)
(* (-pi, pi].  MathCos and MathSin return the exact coordinates.           *)
(* Angle(k) is the angle the index k names among the directions with       *)
(* rational coordinates built from the 3-4-5 triangle: k = 3q + j is the   *)
(* angle q * 90 degrees + (0, atan(3/4), atan(4/3))[j], for any integer k. *)
(***************************************************************************)
BaseCos(j) == IF j = 0 THEN One ELSE IF j = 1 THEN Norm(4, 5, 0) ELSE Norm(3, 5, 0)
BaseSin(j) == IF j = 0 THEN Zero ELSE IF j = 1 THEN Norm(3, 5, 0) ELSE Norm(4, 5, 0)

Angle(k) ==
    LET q == (k \div 3) % 4
        j == k % 3
    IN [cos |-> IF q = 0 THEN BaseCos(j)
                ELSE IF q = 1 THEN NNeg(BaseSin(j))
                ELSE IF q = 2 THEN NNeg(BaseCos(j))
                ELSE BaseSin(j),
        sin |-> IF q = 0 THEN BaseSin(j)
                ELSE IF q = 1 THEN BaseCos(j)
                ELSE IF q = 2 THEN NNeg(BaseSin(j))
                ELSE NNeg(BaseCos(j)),
        turns |-> IF k % 12 <= 6 THEN k \div 12 ELSE (k \div 12) + 1]

MathCos(theta) == theta.cos
MathSin(theta) == theta.sin

rotationMatrix2D(theta) ==
    LET cos == MathCos(theta)
        sin == MathSin(theta)
    IN << <<cos, NNeg(sin)>>,
          <<sin, cos>> >>

rotationMatrixX(theta) ==
    LET cos == MathCos(theta)
        sin == MathSin(theta)
    IN << <<One, Zero, Zero>>,
          <<Zero, cos, NNeg(sin)>>,
          <<Zero, sin, cos>> >>

\* R_y with the lower-left sine not negated.
rotationMatrixYSineNotNegated(theta) ==
    LET cos == MathCos(theta)
        sin == MathSin(theta)
    IN << <<cos, Zero, sin>>,
          <<Zero, One, Zero>>,
          <<sin, Zero, cos>> >>

rotationMatrixY(theta) ==
    LET cos == MathCos(theta)
        sin == MathSin(theta)
    IN << <<cos, Zero, sin>>,
          <<Zero, One, Zero>>,
          <<NNeg(sin), Zero, cos>> >>

rotationMatrixZ(theta) ==
    LET cos == MathCos(theta)
        sin == MathSin(theta)
    IN << <<cos, NNeg(sin), Zero>>,
          <<sin, cos, Zero>>,
          <<Zero, Zero, One>> >>

\* The Euler rotations composed in the opposite order.
rotationMatrixFromEulerReversed(roll, pitch, yaw) ==
    LET Rx == rotationMatrixX(roll)
        Ry == rotationMatrixY(pitch)
        Rz == rotationMatrixZ(yaw)
    IN multiply(multiply(Rx, Ry).val, Rz).val

rotationMatrixFromEuler(roll, pitch, yaw) ==
    LET Rx == rotationMatrixX(roll)
        Ry == rotationMatrixY(pitch)
        Rz == rotationMatrixZ(yaw)
    IN multiply(multiply(Rz, Ry).val, Rx).val

homogeneousTransform2D(theta, tx, ty) ==
    LET cos == MathCos(theta)
        sin == MathSin(theta)
    IN << <<cos, NNeg(sin), tx>>,
          <<sin, cos, ty>>,
          <<Zero, Zero, One>> >>

\* [...R[0], t[0]] and so on: every row is a fresh array.
homogeneousTransform3D(R, t) ==
    << Append(R[1], t[1]),
       Append(R[2], t[2]),
       Append(R[3], t[3]),
       <<Zero, Zero, Zero, One>> >>

extractRotation(T) ==
    << <<T[1][1], T[1][2], T[1][3]>>,
       <<T[2][1], T[2][2], T[2][3]>>,
       <<T[3][1], T[3][2], T[3][3]>> >>

extractTranslation(T) == <<T[1][4], T[2][4], T[3][4]>>

\* inverseTransform2D with the translation R^T t not negated.
inverseTransform2DNotNegated(T) ==
    LET cos == T[1][1]
        sin == T[2][1]
        tx == T[1][3]
        ty == T[2][3]
    IN << <<cos, sin, NAdd(NMul(cos, tx), NMul(sin, ty))>>,
          <<NNeg(sin), cos, NAdd(NMul(NNeg(sin), tx), NMul(cos, ty))>>,
          <<Zero, Zero, One>> >>

inverseTransform2D(T) ==
    LET cos == T[1][1]
        sin == T[2][1]
        tx == T[1][3]
        ty == T[2][3]
    IN << <<cos, sin, NNeg(NAdd(NMul(cos, tx), NMul(sin, ty)))>>,
          <<NNeg(sin), cos, NNeg(NAdd(NMul(NNeg(sin), tx), NMul(cos, ty)))>>,
          <<Zero, Zero, One>> >>

inverseTransform3D(T) ==
    LET R == extractRotation(T)
        t == extractTranslation(T)
        RT == << <<R[1][1], R[2][1], R[3][1]>>,
                 <<R[1][2], R[2][2], R[3][2]>>,
                 <<R[1][3], R[2][3], R[3][3]>> >>
        newT == [i \in 1..3 |->
                    NNeg(NAdd(NAdd(NMul(RT[i][1], t[1]), NMul(RT[i][2], t[2])),
                              NMul(RT[i][3], t[3])))]
    IN homogeneousTransform3D(RT, newT)

\* The translation written into the bottom row instead of the last column.
translationMatrixInBottomRow(tx, ty, tz) ==
    << <<One, Zero, Zero, Zero>>,
       <<Zero, One, Zero, Zero>>,
       <<Zero, Zero, One, Zero>>,
       <<tx, ty, tz, One>> >>

translationMatrix(tx, ty, tz) ==
    << <<One, Zero, Zero, tx>>,
       <<Zero, One, Zero, ty>>,
       <<Zero, Zero, One, tz>>,
       <<Zero, Zero, Zero, One>> >>

homogeneousRotationX(theta) ==
    homogeneousTransform3D(rotationMatrixX(theta), <<Zero, Zero, Zero>>)

homogeneousRotationY(theta) ==
    homogeneousTransform3D(rotationMatrixY(theta), <<Zero, Zero, Zero>>)

homogeneousRotationZ(theta) ==
    homogeneousTransform3D(rotationMatrixZ(theta), <<Zero, Zero, Zero>>)

\* Math.sqrt on the squares of the model's numbers (a number whose root is
\* irrational has no model value; the inputs never produce one).
MathSqrt(x) ==
    LET root(n) == CHOOSE r \in 0..n : r * r = n
    IN IF x = Zero THEN Zero ELSE Norm(root(x[1]), root(x[2]), x[3] \div 2)

\* TRUE iff MathSqrt(x) has a model value.
HasExactSqrt(x) ==
    /\ x[1] >= 0
    /\ x[3] % 2 = 0
    /\ \E r \in 0..x[1] : r * r = x[1]
    /\ \E r \in 0..x[2] : r * r = x[2]

\* Math.atan2(y, x): the angle in (-pi, pi] of the point (x, y), 0 at the
\* origin (signed zeros are not modelled).
MathAtan2(y, x) ==
    LET h == MathSqrt(NAdd(NMul(x, x), NMul(y, y)))
    IN IF h = Zero THEN [cos |-> One, sin |-> Zero, turns |-> 0]
       ELSE [cos |-> NDiv(x, h), sin |-> NDiv(y, h), turns |-> 0]

\* The yaw read with the arguments of atan2 exchanged.
eulerFromRotationMatrixYawSwapped(R) ==
    LET sy == MathSqrt(NAdd(NMul(R[1][1], R[1][1]), NMul(R[2][1], R[2][1])))
        singular == NLt(sy, Norm(1, 1, -6))
    IN IF ~singular
       THEN <<MathAtan2(R[3][2], R[3][3]),
              MathAtan2(NNeg(R[3][1]), sy),
              MathAtan2(R[1][1], R[2][1])>>
       ELSE <<MathAtan2(NNeg(R[2][3]), R[2][2]),
              MathAtan2(NNeg(R[3][1]), sy),
              Angle(0)>>

\* The gimbal-lock roll read without negating R[1][2].
eulerFromRotationMatrixGimbalSign(R) ==
    LET sy == MathSqrt(NAdd(NMul(R[1][1], R[1][1]), NMul(R[2][1], R[2][1])))
        singular == NLt(sy, Norm(1, 1, -6))
    IN IF ~singular
       THEN <<MathAtan2(R[3][2], R[3][3]),
              MathAtan2(NNeg(R[3][1]), sy),
              MathAtan2(R[2][1], R[1][1])>>
       ELSE <<MathAtan2(R[2][3], R[2][2]),
              MathAtan2(NNeg(R[3][1]), sy),
              Angle(0)>>

\* The pitch read against the negative root -sy.
eulerFromRotationMatrixNegativeRoot(R) ==
    LET sy == MathSqrt(NAdd(NMul(R[1][1], R[1][1]), NMul(R[2][1], R[2][1])))
        singular == NLt(sy, Norm(1, 1, -6))
    IN IF ~singular
       THEN <<MathAtan2(R[3][2], R[3][3]),
              MathAtan2(NNeg(R[3][1]), NNeg(sy)),
              MathAtan2(R[2][1], R[1][1])>>
       ELSE <<MathAtan2(NNeg(R[2][3]), R[2][2]),
              MathAtan2(NNeg(R[3][1]), NNeg(sy)),
              Angle(0)>>

eulerFromRotationMatrix(R) ==
    LET sy == MathSqrt(NAdd(NMul(R[1][1], R[1][1]), NMul(R[2][1], R[2][1])))
        singular == NLt(sy, Norm(1, 1, -6))
    IN IF ~singular
       THEN <<MathAtan2(R[3][2], R[3][3]),
              MathAtan2(NNeg(R[3][1]), sy),
              MathAtan2(R[2][1], R[1][1])>>
       ELSE <<MathAtan2(NNeg(R[2][3]), R[2][2]),
              MathAtan2(NNeg(R[3][1]), sy),
              Angle(0)>>

\* Vector2 {x, y} and Vector3 {x, y, z} are records; a point is one of them.
\* The point taken as a row vector: the columns of T used as its rows.
transformPoint2DRowVector(T, point) ==
    [x |-> NAdd(NAdd(NMul(T[1][1], point.x), NMul(T[2][1], point.y)), T[3][1]),
     y |-> NAdd(NAdd(NMul(T[1][2], point.x), NMul(T[2][2], point.y)), T[3][2])]

transformPoint2D(T, point) ==
    [x |-> NAdd(NAdd(NMul(T[1][1], point.x), NMul(T[1][2], point.y)), T[1][3]),
     y |-> NAdd(NAdd(NMul(T[2][1], point.x), NMul(T[2][2], point.y)), T[2][3])]

\* The linear part alone: the translation column is not added.
transformPoint3DNoTranslation(T, point) ==
    LET at(i) == NAdd(NAdd(NMul(T[i][1], point.x), NMul(T[i][2], point.y)),
                      NMul(T[i][3], point.z))
    IN [x |-> at(1), y |-> at(2), z |-> at(3)]

transformPoint3D(T, point) ==
    LET at(i) == NAdd(NAdd(NAdd(NMul(T[i][1], point.x), NMul(T[i][2], point.y)),
                           NMul(T[i][3], point.z)), T[i][4])
    IN [x |-> at(1), y |-> at(2), z |-> at(3)]

\* The DH matrix with the link length left out of the last column.
dhTransformNoLinkLength(a, alpha, d, theta) ==
    LET ct == MathCos(theta)
        st == MathSin(theta)
        ca == MathCos(alpha)
        sa == MathSin(alpha)
    IN << <<ct, NMul(NNeg(st), ca), NMul(st, sa), ct>>,
          <<st, NMul(ct, ca), NMul(NNeg(ct), sa), st>>,
          <<Zero, sa, ca, d>>,
          <<Zero, Zero, Zero, One>> >>

dhTransform(a, alpha, d, theta) ==
    LET ct == MathCos(theta)
        st == MathSin(theta)
        ca == MathCos(alpha)
        sa == MathSin(alpha)
    IN << <<ct, NMul(NNeg(st), ca), NMul(st, sa), NMul(a, ct)>>,
          <<st, NMul(ct, ca), NMul(NNeg(ct), sa), NMul(a, st)>>,
          <<Zero, sa, ca, d>>,
          <<Zero, Zero, Zero, One>> >>

\* The default of isValidRotationMatrix's epsilon parameter: 1e-6.
DefaultRotationEpsilon == Norm(1, 1, -6)

isValidRotationMatrix(R, epsilon) ==
    LET size == Len(R)
        sum(i, j) == SumTo([k \in 1..size |-> NMul(R[k][i], R[k][j])], size)
        expected(i, j) == IF i = j THEN One ELSE Zero
        det == IF size = 2
               THEN NSub(NMul(R[1][1], R[2][2]), NMul(R[1][2], R[2][1]))
               ELSE NAdd(NSub(NMul(R[1][1], NSub(NMul(R[2][2], R[3][3]), NMul(R[2][3], R[3][2]))),
                              NMul(R[1][2], NSub(NMul(R[2][1], R[3][3]), NMul(R[2][3], R[3][1])))),
                         NMul(R[1][3], NSub(NMul(R[2][1], R[3][2]), NMul(R[2][2], R[3][1]))))
    IN IF size # Len(R[1]) \/ (size # 3 /\ size # 2) THEN FALSE
       ELSE IF \E i, j \in 1..size : NGt(NAbs(NSub(sum(i, j), expected(i, j))), epsilon)
            THEN FALSE
       ELSE NLt(NAbs(NSub(det, One)), epsilon)

(***************************************************************************)
(* vector.ts.  A Vector2 is a record [x, y], a Vector3 a record [x, y, z]. *)
(* The functions that share a name with a matrix function carry the        *)
(* prefix vec, as in the tests' import (vec.add, vec.scale, vec.equals).   *)
(***************************************************************************)
isVector3(v) == "z" \in DOMAIN v

vecAdd(a, b) ==
    IF isVector3(a) /\ isVector3(b)
    THEN [x |-> NAdd(a.x, b.x), y |-> NAdd(a.y, b.y), z |-> NAdd(a.z, b.z)]
    ELSE [x |-> NAdd(a.x, b.x), y |-> NAdd(a.y, b.y)]

vecSubtract(a, b) ==
    IF isVector3(a) /\ isVector3(b)
    THEN [x |-> NSub(a.x, b.x), y |-> NSub(a.y, b.y), z |-> NSub(a.z, b.z)]
    ELSE [x |-> NSub(a.x, b.x), y |-> NSub(a.y, b.y)]

vecScale(v, s) ==
    IF isVector3(v)
    THEN [x |-> NMul(v.x, s), y |-> NMul(v.y, s), z |-> NMul(v.z, s)]
    ELSE [x |-> NMul(v.x, s), y |-> NMul(v.y, s)]

\* The argument of Math.sqrt in magnitude.
magnitudeSquared(v) ==
    IF isVector3(v)
    THEN NAdd(NAdd(NMul(v.x, v.x), NMul(v.y, v.y)), NMul(v.z, v.z))
    ELSE NAdd(NMul(v.x, v.x), NMul(v.y, v.y))

magnitude(v) == MathSqrt(magnitudeSquared(v))

dot(a, b) ==
    IF isVector3(a) /\ isVector3(b)
    THEN NAdd(NAdd(NMul(a.x, b.x), NMul(a.y, b.y)), NMul(a.z, b.z))
    ELSE NAdd(NMul(a.x, b.x), NMul(a.y, b.y))

project(a, b) ==
    LET magB == magnitude(b)
    IN IF magB = Zero
       THEN (IF isVector3(a) THEN [x |-> Zero, y |-> Zero, z |-> Zero]
             ELSE [x |-> Zero, y |-> Zero])
       ELSE vecScale(b, NDiv(dot(a, b), NMul(magB, magB)))

distance(a, b) == magnitude(vecSubtract(a, b))

lerp(a, b, t) ==
    LET diff == vecSubtract(b, a)
    IN vecAdd(a, vecScale(diff, t))

vecEquals(a, b, epsilon) ==
    IF isVector3(a) /\ isVector3(b)
    THEN /\ NLt(NAbs(NSub(a.x, b.x)), epsilon)
         /\ NLt(NAbs(NSub(a.y, b.y)), epsilon)
         /\ NLt(NAbs(NSub(a.z, b.z)), epsilon)
    ELSE IF ~isVector3(a) /\ ~isVector3(b)
    THEN /\ NLt(NAbs(NSub(a.x, b.x)), epsilon)
         /\ NLt(NAbs(NSub(a.y, b.y)), epsilon)
    ELSE FALSE

\* cross with the z component added instead of subtracted.
crossSymmetricZ(a, b) ==
    [x |-> NSub(NMul(a.y, b.z), NMul(a.z, b.y)),
     y |-> NSub(NMul(a.z, b.x), NMul(a.x, b.z)),
     z |-> NAdd(NMul(a.x, b.y), NMul(a.y, b.x))]

cross(a, b) ==
    [x |-> NSub(NMul(a.y, b.z), NMul(a.z, b.y)),
     y |-> NSub(NMul(a.z, b.x), NMul(a.x, b.z)),
     z |-> NSub(NMul(a.x, b.y), NMul(a.y, b.x))]

\* normalize returning the Vector2 zero for every zero vector.
normalizeZeroAlways2D(v) ==
    LET mag == magnitude(v)
    IN IF mag = Zero
       THEN [x |-> Zero, y |-> Zero]
       ELSE vecScale(v, NDiv(One, mag))

normalize(v) ==
    LET mag == magnitude(v)
    IN IF mag = Zero
       THEN (IF isVector3(v) THEN [x |-> Zero, y |-> Zero, z |-> Zero]
             ELSE [x |-> Zero, y |-> Zero])
       ELSE vecScale(v, NDiv(One, mag))

\* Math.max(-1, Math.min(1, x))
clamp(x) ==
    LET m == IF NLt(One, x) THEN One ELSE x
    IN IF NLt(m, NNeg(One)) THEN NNeg(One) ELSE m

\* Math.acos(c) for -1 <= c <= 1: the angle in [0, pi] whose cosine is c,
\* exact where 1 - c * c has a rational root.
MathAcos(c) ==
    [cos |-> c, sin |-> MathSqrt(NSub(One, NMul(c, c))), turns |-> 0]

angleBetween(a, b) ==
    LET magA == magnitude(a)
        magB == magnitude(b)
    IN IF magA = Zero \/ magB = Zero
       THEN Angle(0)
       ELSE MathAcos(clamp(NDiv(dot(a, b), NMul(magA, magB))))

(***************************************************************************)
(* Storage: number[] arrays and the outer arrays of number[][].            *)
(***************************************************************************)
\* The matrix value reachable from the outer array m of heap H.
ValueOf(H, m) == [i \in 1..Len(H.mats[m]) |-> H.rows[H.mats[m][i]]]

\* A new number[] holding r; its address is Len(H.rows) + 1.
AllocRow(H, r) == [rows |-> Append(H.rows, r), mats |-> H.mats]

\* A new number[][] whose rows are all new arrays holding v; its address is
\* Len(H.mats) + 1.
AllocMatrix(H, v) ==
    [rows |-> H.rows \o v,
     mats |-> Append(H.mats, [i \in 1..Len(v) |-> Len(H.rows) + i])]

(***************************************************************************)
(* inverse: the Gauss-Jordan path, on values.                              *)
(***************************************************************************)
\* matrix.map((row, i) => [...row, ...identity(size)[i]])
augmentedRows(matrix) ==
    LET size == Len(matrix)
    IN [i \in 1..size |-> matrix[i] \o identity(size)[i]]

\* The pivot search in which a later row replaces maxRow also on a tie.
RECURSIVE findPivotLastOnTies(_, _, _, _)
findPivotLastOnTies(A, i, k, maxRow) ==
    IF k > Len(A) THEN maxRow
    ELSE findPivotLastOnTies(A, i, k + 1,
                   IF NLt(NAbs(A[k][i]), NAbs(A[maxRow][i])) THEN maxRow ELSE k)

\* The pivot search of column i: the loop over k = i + 1 .. size, entered
\* with maxRow; a later row replaces maxRow only when strictly larger.
RECURSIVE findPivot(_, _, _, _)
findPivot(A, i, k, maxRow) ==
    IF k > Len(A) THEN maxRow
    ELSE findPivot(A, i, k + 1,
                   IF NGt(NAbs(A[k][i]), NAbs(A[maxRow][i])) THEN k ELSE maxRow)

\* The pivot row left as it is.
scaleRowSkipped(row, pivot) == row

\* for (j < size * 2) augmented[i][j] /= pivot
scaleRow(row, pivot) == [j \in 1..Len(row) |-> NDiv(row[j], pivot)]

\* The elimination adding the multiple of the pivot row.
eliminateRowAdded(rowK, rowI, factor) ==
    [j \in 1..Len(rowK) |-> NAdd(rowK[j], NMul(factor, rowI[j]))]

\* for (j < size * 2) augmented[k][j] -= factor * augmented[i][j]
eliminateRow(rowK, rowI, factor) ==
    [j \in 1..Len(rowK) |-> NSub(rowK[j], NMul(factor, rowI[j]))]

\* row.slice(size)
sliceFrom(row, size) == [j \in 1..(Len(row) - size) |-> row[size + j]]

(***************************************************************************)
(* The caller's side: the arrays it passes and the values it may store     *)
(* into an array element after a call has returned.                        *)
(***************************************************************************)
Ints == (-MaxVal)..MaxVal
Dims == 1..MaxDim
Angles == {Angle(k) : k \in 0..MaxAngle}

\* 5e-11: a non-zero magnitude below the 1e-10 tolerance.
Tiny == Norm(5, 1, -11)

\* The value the tests store to show a copy is independent (data[0][0] = 999).
Poison == Q(999)

\* rows x cols, the entries counting up from k in row-major order:
\* CountMat(2, 2, 1) = [[1,2],[3,4]], CountMat(2, 2, 5) = [[5,6],[7,8]].
CountMat(rows, cols, k) ==
    [i \in 1..rows |-> [j \in 1..cols |-> Q(k + cols * (i - 1) + (j - 1))]]

CountVec(len, k) == [j \in 1..len |-> Q(k + j - 1)]

\* n x n with d on the diagonal, u above it and l below it; row z (if any)
\* is zeroed, and the last diagonal entry is replaced by e when corner holds.
BandMat(n, d, u, l, z, corner, e) ==
    [i \in 1..n |-> [j \in 1..n |->
        IF i = z THEN Zero
        ELSE IF i = j THEN (IF corner /\ i = n THEN e ELSE Q(d))
        ELSE IF i < j THEN Q(u) ELSE Q(l)]]

CountMats(ks) == {CountMat(r, c, k) : r \in Dims, c \in Dims, k \in ks}
Identities == {identity(n) : n \in Dims}
Rectangles == {CountMat(r, c, 1) : r \in Dims, c \in Dims}

SquareMats ==
    {BandMat(n, d, u, l, z, FALSE, Zero) :
        n \in Dims, d \in Ints, u \in 0..MaxVal, l \in (-MaxVal)..0, z \in 0..MaxDim}
    \cup {BandMat(n, d, u, 0, 0, TRUE, Tiny) : n \in Dims, d \in Ints, u \in 0..MaxVal}

Rotations3 ==
    {rotationMatrixX(k) : k \in Angles} \cup {rotationMatrixY(k) : k \in Angles}
    \cup {rotationMatrixZ(k) : k \in Angles}
    \cup {rotationMatrixFromEuler(r, p, y) : r \in {Angle(1), Angle(4)}, p \in {Angle(0), Angle(2), Angle(3)},
            y \in {Angle(1), Angle(8)}}

Translations3 == {<<Q(a), Q(b), Q(a + b)>> : a \in {-MaxVal, 0, 1}, b \in {0, MaxVal}}

Transforms2 ==
    {homogeneousTransform2D(k, Q(tx), Q(ty)) : k \in Angles, tx \in Ints, ty \in Ints}

Transforms3 == {homogeneousTransform3D(R, t) : R \in Rotations3, t \in Translations3}

\* One planned call: the operation and the arrays and scalar the caller
\* passes (<<>> for an array the operation does not take).
Scenario(op, A, B, v, s) ==
    [op |-> op, A |-> A, B |-> B, v |-> v, s |-> s, args |-> <<>>]

\* A planned call of an operation that takes numbers, angles or vector
\* objects (args, in parameter order) and at most one matrix.
ArgScenario(op, A, args) ==
    [op |-> op, A |-> A, B |-> <<>>, v |-> <<>>, s |-> Zero, args |-> args]

Scenarios ==
    {Scenario(op, A, <<>>, <<>>, Zero) :
        op \in {"create", "copy", "transpose"}, A \in CountMats({1, 5})}
    \cup {Scenario("scale", A, <<>>, <<>>, Q(s)) : A \in CountMats({1}), s \in Ints}
    \cup {Scenario(op, A, B, <<>>, Zero) :
            op \in {"multiply", "add", "subtract"},
            A \in CountMats({1}) \cup Identities,
            B \in CountMats({5}) \cup Identities}
    \cup {Scenario(op, A, <<>>, <<>>, Zero) :
            op \in {"determinant", "inverse"}, A \in SquareMats \cup Rectangles}
    \cup {Scenario("applyToVector", A, <<>>, v, Zero) :
            A \in Rectangles \cup Identities,
            v \in {CountVec(n, k) : n \in Dims, k \in {-MaxVal, 1}}}
    \cup {Scenario("homogeneousTransform3D", R, <<>>, t, Zero) :
            R \in Rotations3, t \in Translations3}
    \cup {Scenario("extractRotation", T, <<>>, <<>>, Zero) : T \in Transforms3}
    \cup {Scenario("inverseTransform2D", T, <<>>, <<>>, Zero) : T \in Transforms2}
    \cup {Scenario("inverseTransform3D", T, <<>>, <<>>, Zero) : T \in Transforms3}

SignedAngles == {Angle(k) : k \in (-MaxAngle)..MaxAngle}

\* Yaw angles in every quadrant, on the axes and beyond a half turn.
YawAngles == {Angle(k) : k \in {-MaxAngle, -6, -4, -3, -1, 0, 2, 3, 6, MaxAngle}}

\* Calls whose arguments are angles: the Euler constructor on every triple
\* of angles, and eulerFromRotationMatrix on the matrix the caller built from
\* a triple of angles (kept in args as the caller's record of them).
AngleScenarios ==
    {ArgScenario("rotationMatrixFromEuler", <<>>, <<r, p, y>>) :
        r \in Angles, p \in Angles, y \in Angles}
    \cup {ArgScenario("eulerFromRotationMatrix", rotationMatrixFromEuler(r, p, y), <<r, p, y>>) :
            r \in SignedAngles, p \in SignedAngles, y \in YawAngles}

\* [[1, e], [0, 1]]: columns that are orthogonal up to e, determinant 1.
Shear(e) == << <<One, e>>, <<Zero, One>> >>

\* diag(a, b).
Diag2(a, b) == << <<a, Zero>>, <<Zero, b>> >>

\* The matrices passed to isValidRotationMatrix with a chosen epsilon:
\* rotations, non-square and 1x1 and 4x4 matrices, scalings, reflections,
\* projections and matrices that are rotations up to a small error.
ValidationMatrices ==
    {rotationMatrix2D(k) : k \in Angles} \cup Rotations3 \cup Rectangles \cup Identities
    \cup {Diag2(Q(a), Q(b)) : a \in Ints, b \in Ints}
    \cup {BandMat(3, d, u, l, 0, FALSE, Zero) : d \in {-1, 1}, u \in {0, 1}, l \in {-1, 0}}
    \cup {Shear(Norm(k, 1, -3)) : k \in 1..MaxVal}

\* Denavit-Hartenberg link lengths a and link offsets d.
LinkLengths == {Q(0), Q(1), Q(-MaxVal)}
LinkOffsets == {Q(0), Norm(5, 1, -1), Q(MaxVal)}

Epsilons == {Zero, DefaultRotationEpsilon, Norm(1, 1, -3), One}

\* Calls whose arguments are a matrix and numbers.
NumberScenarios ==
    {ArgScenario("isValidRotationMatrix", R, <<e>>) : R \in ValidationMatrices, e \in Epsilons}
    \cup {ArgScenario("isValidRotationMatrix", rotationMatrixFromEuler(r, p, y),
                       <<DefaultRotationEpsilon>>) :
            r \in Angles, p \in Angles, y \in Angles}
    \cup {ArgScenario("dhTransform", <<>>, <<a, alpha, d, theta>>) :
            a \in LinkLengths, alpha \in Angles, d \in LinkOffsets, theta \in Angles}

\* Vector2 and Vector3 objects with small integer components.
Vectors2 == {[x |-> Q(a), y |-> Q(b)] : a \in Ints, b \in Ints}
Vectors3 == {[x |-> Q(a), y |-> Q(b), z |-> Q(c)] :
                a \in {-MaxVal, 0, 1}, b \in {-MaxVal, 0, 1}, c \in {-MaxVal, 0, 1}}

\* 3x3 and 4x4 matrices applied to points: rigid transforms and general ones.
PointMatrices2 ==
    {CountMat(3, 3, k) : k \in {1, 5}}
    \cup {homogeneousTransform2D(k, Q(1), Q(-MaxVal)) : k \in Angles}
PointMatrices3 ==
    {CountMat(4, 4, k) : k \in {1, 5}}
    \cup {homogeneousTransform3D(R, <<Q(1), Q(-MaxVal), Q(MaxVal)>>) : R \in Rotations3}

\* Calls that take a matrix and a point object.
PointScenarios ==
    {ArgScenario("transformPoint2D", T, <<p>>) : T \in PointMatrices2, p \in Vectors2}
    \cup {ArgScenario("transformPoint3D", T, <<p>>) : T \in PointMatrices3, p \in Vectors3}

\* The operands of the vector functions, of both dimensions.
VectorOperands ==
    {[x |-> Q(a), y |-> Q(b)] : a \in {-MaxVal, 0, 1}, b \in {0, 1}}
    \cup {[x |-> Q(a), y |-> Q(b), z |-> Q(c)] :
            a \in {-MaxVal, 0, 1}, b \in {0, 1}, c \in {0, MaxVal}}

\* The Vector3 operands of cross; the set holds multiples of its members.
CrossOperands ==
    {[x |-> Q(a), y |-> Q(b), z |-> Q(c)] :
        a \in Ints, b \in {-MaxVal, 0, 1}, c \in {0, 1, MaxVal}}

\* The operands of normalize and angleBetween: the operands above and
\* vectors along the sides of 3-4-5 triangles.
DirectionOperands ==
    VectorOperands
    \cup {[x |-> Q(3 * a), y |-> Q(4 * b)] : a \in {-1, 1}, b \in {-1, 1}}
    \cup {[x |-> Q(4), y |-> Q(3)], [x |-> Q(3), y |-> Q(4), z |-> Q(0)],
          [x |-> Q(0), y |-> Q(-4), z |-> Q(3)]}

\* TRUE iff angleBetween(a, b) has a model value: both magnitudes and the
\* sine of the angle are rational.
HasExactAngle(a, b) ==
    /\ HasExactSqrt(magnitudeSquared(a))
    /\ HasExactSqrt(magnitudeSquared(b))
    /\ \/ magnitudeSquared(a) = Zero
       \/ magnitudeSquared(b) = Zero
       \/ LET c == NDiv(dot(a, b), NMul(magnitude(a), magnitude(b)))
          IN HasExactSqrt(NSub(One, NMul(c, c)))

\* Calls of the vector functions; those that take a square root are called
\* where the number they take the root of is a square.
VectorScenarios ==
    {ArgScenario(op, <<>>, <<a, b>>) :
        op \in {"vecAdd", "vecSubtract", "dot"}, a \in VectorOperands, b \in VectorOperands}
    \cup {ArgScenario("distance", <<>>, <<ab[1], ab[2]>>) :
            ab \in {p \in VectorOperands \X VectorOperands :
                       HasExactSqrt(magnitudeSquared(vecSubtract(p[1], p[2])))}}
    \cup {ArgScenario("project", <<>>, <<ab[1], ab[2]>>) :
            ab \in {p \in VectorOperands \X VectorOperands :
                       HasExactSqrt(magnitudeSquared(p[2]))}}
    \cup {ArgScenario("lerp", <<>>, <<a, b, Norm(5, 1, -1)>>) :
            a \in VectorOperands, b \in VectorOperands}
    \cup {ArgScenario("vecEquals", <<>>, <<a, b, e>>) :
            a \in VectorOperands, b \in VectorOperands, e \in {Zero, Tol, One}}
    \cup {ArgScenario("cross", <<>>, <<a, b>>) : a \in CrossOperands, b \in CrossOperands}
    \cup {ArgScenario("normalize", <<>>, <<v>>) :
            v \in {w \in DirectionOperands : HasExactSqrt(magnitudeSquared(w))}}
    \cup {ArgScenario("angleBetween", <<>>, <<ab[1], ab[2]>>) :
            ab \in {p \in DirectionOperands \X DirectionOperands : HasExactAngle(p[1], p[2])}}

EmptyHeap == [rows |-> <<>>, mats |-> <<>>]

\* The caller's arrays of a scenario: A at outer address 1, B (if any) at 2,
\* the vector (if any) in the row array after them.
HeapWithB(sc) ==
    IF sc.A = <<>> THEN EmptyHeap
    ELSE IF sc.B = <<>> THEN AllocMatrix(EmptyHeap, sc.A)
    ELSE AllocMatrix(AllocMatrix(EmptyHeap, sc.A), sc.B)

HeapOf(sc) == IF sc.v = <<>> THEN HeapWithB(sc) ELSE AllocRow(HeapWithB(sc), sc.v)

CallOf(sc) ==
    [op |-> sc.op, a |-> IF sc.A = <<>> THEN 0 ELSE 1,
     b |-> IF sc.B = <<>> THEN 0 ELSE 2,
     v |-> IF sc.v = <<>> THEN 0 ELSE Len(HeapWithB(sc).rows) + 1,
     s |-> sc.s,
     args |-> sc.args]

NoResult == [kind |-> "none"]

VARIABLES
    heap,     \* the arrays: [rows, mats]
    call,     \* the call under way: operation, argument addresses, scalar
    pc,       \* "ready", the Gauss-Jordan steps, "returned" or "thrown"
    res,      \* what the call returned or threw
    aug,      \* inverse: the outer address of the augmented matrix (0: none)
    col,      \* inverse: the 1-based column i of the Gauss-Jordan loop
    maxRow,   \* inverse: the pivot row found for column col
    writes    \* the number of element stores the caller made after the call

vars == <<heap, call, pc, res, aug, col, maxRow, writes>>

Init ==
    /\ \/ \E sc \in Scenarios : heap = HeapOf(sc) /\ call = CallOf(sc)
       \/ \E sc \in AngleScenarios : heap = HeapOf(sc) /\ call = CallOf(sc)
       \/ \E sc \in NumberScenarios : heap = HeapOf(sc) /\ call = CallOf(sc)
       \/ \E sc \in PointScenarios : heap = HeapOf(sc) /\ call = CallOf(sc)
    /\ pc = "ready"
    /\ res = NoResult
    /\ aug = 0
    /\ col = 0
    /\ maxRow = 0
    /\ writes = 0

\* A call of one of the vector functions.
InitVector ==
    /\ \E sc \in VectorScenarios : heap = HeapOf(sc) /\ call = CallOf(sc)
    /\ pc = "ready"
    /\ res = NoResult
    /\ aug = 0
    /\ col = 0
    /\ maxRow = 0
    /\ writes = 0

A0 == ValueOf(heap, call.a)
B0 == ValueOf(heap, call.b)
V0 == heap.rows[call.v]

Ready(op) == pc = "ready" /\ call.op = op

\* return of a freshly built number[][] holding v
ReturnMatrix(v) ==
    /\ heap' = AllocMatrix(heap, v)
    /\ res' = [kind |-> "matrix", ref |-> Len(heap.mats) + 1]
    /\ pc' = "returned"
    /\ UNCHANGED <<call, aug, col, maxRow, writes>>

\* return of a freshly built number[] holding r
ReturnVector(r) ==
    /\ heap' = AllocRow(heap, r)
    /\ res' = [kind |-> "vector", ref |-> Len(heap.rows) + 1]
    /\ pc' = "returned"
    /\ UNCHANGED <<call, aug, col, maxRow, writes>>

ReturnNumber(x) ==
    /\ res' = [kind |-> "number", val |-> x]
    /\ pc' = "returned"
    /\ UNCHANGED <<heap, call, aug, col, maxRow, writes>>

\* return of a boolean, of a Vector2 / Vector3 object or of the
\* [roll, pitch, yaw] triple, as a value
ReturnValue(kind, x) ==
    /\ res' = [kind |-> kind, val |-> x]
    /\ pc' = "returned"
    /\ UNCHANGED <<heap, call, aug, col, maxRow, writes>>

\* throw new Error(...)
Throw(e) ==
    /\ res' = e
    /\ pc' = "thrown"
    /\ UNCHANGED <<heap, call, aug, col, maxRow, writes>>

\* create returning the caller's array itself.
CallCreateSameArray ==
    /\ Ready("create")
    /\ res' = [kind |-> "matrix", ref |-> call.a]
    /\ pc' = "returned"
    /\ UNCHANGED <<heap, call, aug, col, maxRow, writes>>

CallCreate == Ready("create") /\ ReturnMatrix(create(A0))

CallCopy == Ready("copy") /\ ReturnMatrix(copy(A0))

CallTranspose == Ready("transpose") /\ ReturnMatrix(transpose(A0))

CallScale == Ready("scale") /\ ReturnMatrix(scale(A0, call.s))

CallMultiply ==
    /\ Ready("multiply")
    /\ LET r == multiply(A0, B0)
       IN IF r.kind = "ok" THEN ReturnMatrix(r.val) ELSE Throw(r)

CallAdd ==
    /\ Ready("add")
    /\ LET r == add(A0, B0)
       IN IF r.kind = "ok" THEN ReturnMatrix(r.val) ELSE Throw(r)

CallSubtract ==
    /\ Ready("subtract")
    /\ LET r == subtract(A0, B0)
       IN IF r.kind = "ok" THEN ReturnMatrix(r.val) ELSE Throw(r)

CallDeterminant ==
    /\ Ready("determinant")
    /\ LET r == determinant(A0)
       IN IF r.kind = "ok" THEN ReturnNumber(r.val) ELSE Throw(r)

CallApplyToVector ==
    /\ Ready("applyToVector")
    /\ LET r == applyToVector(A0, V0)
       IN IF r.kind = "ok" THEN ReturnVector(r.val) ELSE Throw(r)

CallHomogeneousTransform3D ==
    Ready("homogeneousTransform3D") /\ ReturnMatrix(homogeneousTransform3D(A0, V0))

CallExtractRotation == Ready("extractRotation") /\ ReturnMatrix(extractRotation(A0))

CallInverseTransform2D ==
    Ready("inverseTransform2D") /\ ReturnMatrix(inverseTransform2D(A0))

CallInverseTransform3D ==
    Ready("inverseTransform3D") /\ ReturnMatrix(inverseTransform3D(A0))

CallRotationMatrixFromEuler ==
    /\ Ready("rotationMatrixFromEuler")
    /\ ReturnMatrix(rotationMatrixFromEuler(call.args[1], call.args[2], call.args[3]))

CallEulerFromRotationMatrix ==
    /\ Ready("eulerFromRotationMatrix")
    /\ ReturnValue("angles", eulerFromRotationMatrix(A0))

CallIsValidRotationMatrix ==
    /\ Ready("isValidRotationMatrix")
    /\ ReturnValue("boolean", isValidRotationMatrix(A0, call.args[1]))

CallDhTransform ==
    /\ Ready("dhTransform")
    /\ ReturnMatrix(dhTransform(call.args[1], call.args[2], call.args[3], call.args[4]))

CallTransformPoint2D ==
    /\ Ready("transformPoint2D")
    /\ ReturnValue("vector2", transformPoint2D(A0, call.args[1]))

CallTransformPoint3D ==
    /\ Ready("transformPoint3D")
    /\ ReturnValue("vector3", transformPoint3D(A0, call.args[1]))

\* The kind of result a vector object is.
KindOf(v) == IF isVector3(v) THEN "vector3" ELSE "vector2"

CallVecAdd ==
    /\ Ready("vecAdd")
    /\ LET r == vecAdd(call.args[1], call.args[2]) IN ReturnValue(KindOf(r), r)

CallVecSubtract ==
    /\ Ready("vecSubtract")
    /\ LET r == vecSubtract(call.args[1], call.args[2]) IN ReturnValue(KindOf(r), r)

CallDot == Ready("dot") /\ ReturnNumber(dot(call.args[1], call.args[2]))

CallDistance == Ready("distance") /\ ReturnNumber(distance(call.args[1], call.args[2]))

CallLerp ==
    /\ Ready("lerp")
    /\ LET r == lerp(call.args[1], call.args[2], call.args[3]) IN ReturnValue(KindOf(r), r)

CallProject ==
    /\ Ready("project")
    /\ LET r == project(call.args[1], call.args[2]) IN ReturnValue(KindOf(r), r)

CallVecEquals ==
    /\ Ready("vecEquals")
    /\ ReturnValue("boolean", vecEquals(call.args[1], call.args[2], call.args[3]))

CallCross == Ready("cross") /\ ReturnValue("vector3", cross(call.args[1], call.args[2]))

CallNormalize ==
    /\ Ready("normalize")
    /\ LET r == normalize(call.args[1]) IN ReturnValue(KindOf(r), r)

CallAngleBetween ==
    /\ Ready("angleBetween")
    /\ ReturnValue("angle", angleBetween(call.args[1], call.args[2]))

\* The test against exact zero instead of the tolerance.
belowToleranceExactZero(x) == x = Zero

\* Math.abs(x) < 1e-10: the test of det, and of each pivot, in inverse.
belowTolerance(x) == NLt(NAbs(x), Tol)

\* The augmented rows built by appending to the rows of the argument itself
\* (row.push(...identity(size)[i])), under a new outer array.
AugmentInPlace(H, m) ==
    [rows |-> [r \in DOMAIN H.rows |->
                  IF \E i \in 1..Len(H.mats[m]) : H.mats[m][i] = r
                  THEN H.rows[r] \o identity(Len(H.mats[m]))[
                           CHOOSE i \in 1..Len(H.mats[m]) : H.mats[m][i] = r]
                  ELSE H.rows[r]],
     mats |-> Append(H.mats, H.mats[m])]

\* const augmented = matrix.map(...): new row arrays in a new outer array.
Augment(H, m) == AllocMatrix(H, augmentedRows(ValueOf(H, m)))

\* inverse, up to the start of the Gauss-Jordan loop: the square test, the
\* determinant test, the 2x2 and 3x3 special cases, the augmented matrix.
CallInverse ==
    /\ Ready("inverse")
    /\ LET rows == dimensions(A0)[1]
           cols == dimensions(A0)[2]
       IN IF rows # cols THEN Throw(Err("NotSquare", <<rows, cols>>))
          ELSE LET det == determinant(A0).val
               IN IF belowTolerance(det) THEN Throw(Err("Singular", <<>>))
                  ELSE IF rows = 2 THEN ReturnMatrix(inverse2(A0, det))
                  ELSE IF rows = 3 THEN ReturnMatrix(inverse3(A0, det))
                  ELSE /\ heap' = Augment(heap, call.a)
                       /\ aug' = Len(heap.mats) + 1
                       /\ col' = 1
                       /\ pc' = "gj_find"
                       /\ UNCHANGED <<call, res, maxRow, writes>>

Augmented == ValueOf(heap, aug)

\* "Find pivot": let maxRow = i; for (k = i + 1; k < size; k++) ...
GJFindPivot ==
    /\ pc = "gj_find"
    /\ maxRow' = findPivot(Augmented, col, col + 1, col)
    /\ pc' = "gj_swap"
    /\ UNCHANGED <<heap, call, res, aug, col, writes>>

\* "Swap rows": [augmented[i], augmented[maxRow]] = [augmented[maxRow], augmented[i]]
GJSwapRows ==
    /\ pc = "gj_swap"
    /\ heap' = [heap EXCEPT !.mats[aug] =
                   [@ EXCEPT ![col] = heap.mats[aug][maxRow],
                             ![maxRow] = heap.mats[aug][col]]]
    /\ pc' = "gj_scale"
    /\ UNCHANGED <<call, res, aug, col, maxRow, writes>>

\* "Scale pivot row": the pivot test, then augmented[i][j] /= pivot in place.
GJScalePivotRow ==
    /\ pc = "gj_scale"
    /\ LET pivot == Augmented[col][col]
       IN IF belowTolerance(pivot) THEN Throw(Err("Singular", <<>>))
          ELSE /\ heap' = [heap EXCEPT !.rows[heap.mats[aug][col]] = scaleRow(@, pivot)]
               /\ pc' = "gj_elim"
               /\ UNCHANGED <<call, res, aug, col, maxRow, writes>>

\* "Eliminate column": every row k # i, in place; then i++.
GJEliminateColumn ==
    /\ pc = "gj_elim"
    /\ LET size == Len(heap.mats[aug])
           rowI == Augmented[col]
           target == {heap.mats[aug][k] : k \in (1..size) \ {col}}
       IN /\ heap' = [heap EXCEPT !.rows =
                        [r \in DOMAIN heap.rows |->
                            IF r \in target
                            THEN eliminateRow(heap.rows[r], rowI, heap.rows[r][col])
                            ELSE heap.rows[r]]]
          /\ col' = col + 1
          /\ pc' = IF col = size THEN "gj_extract" ELSE "gj_find"
    /\ UNCHANGED <<call, res, aug, maxRow, writes>>

\* return augmented.map(row => row.slice(size))
GJExtract ==
    /\ pc = "gj_extract"
    /\ LET size == Len(heap.mats[aug])
       IN ReturnMatrix([i \in 1..size |-> sliceFrom(Augmented[i], size)])

(***************************************************************************)
(* After a call has returned, the caller stores Poison into the first or   *)
(* the last element of the first or the last row of an array it holds: an  *)
(* argument or the result.                                                 *)
(***************************************************************************)
EndRows(m) == IF m = 0 THEN {} ELSE {heap.mats[m][1], heap.mats[m][Len(heap.mats[m])]}

ArgRows == EndRows(call.a) \cup EndRows(call.b) \cup (IF call.v = 0 THEN {} ELSE {call.v})

ResultRows ==
    IF res.kind = "matrix" THEN EndRows(res.ref)
    ELSE IF res.kind = "vector" THEN {res.ref}
    ELSE {}

CallerWrite ==
    /\ pc = "returned"
    /\ writes < MaxWrites
    /\ \E r \in ArgRows \cup ResultRows : \E j \in {1, Len(heap.rows[r])} :
          heap' = [heap EXCEPT !.rows[r][j] = Poison]
    /\ writes' = writes + 1
    /\ UNCHANGED <<call, pc, res, aug, col, maxRow>>

NextCalls ==
    \/ CallCreate
    \/ CallCopy
    \/ CallTranspose
    \/ CallScale
    \/ CallMultiply
    \/ CallAdd
    \/ CallSubtract
    \/ CallDeterminant
    \/ CallInverse
    \/ GJFindPivot
    \/ GJSwapRows
    \/ GJScalePivotRow
    \/ GJEliminateColumn
    \/ GJExtract
    \/ CallApplyToVector
    \/ CallHomogeneousTransform3D
    \/ CallExtractRotation
    \/ CallInverseTransform2D
    \/ CallInverseTransform3D
    \/ CallRotationMatrixFromEuler
    \/ CallEulerFromRotationMatrix
    \/ CallIsValidRotationMatrix
    \/ CallDhTransform
    \/ CallTransformPoint2D
    \/ CallTransformPoint3D

Next == NextCalls \/ CallerWrite

\* The calls, followed by the caller's stores.
Spec == Init /\ [][Next]_vars

\* The calls alone.
SpecCalls == Init /\ [][NextCalls]_vars

NextVector ==
    \/ CallVecAdd
    \/ CallVecSubtract
    \/ CallDot
    \/ CallDistance
    \/ CallLerp
    \/ CallProject
    \/ CallVecEquals
    \/ CallCross
    \/ CallNormalize
    \/ CallAngleBetween

\* The calls of the vector functions.
SpecVector == InitVector /\ [][NextVector]_vars

\* The matrices that reach inverse's Gauss-Jordan loop (size 4 and above).
GaussJordanMatrices == {A \in SquareMats : Len(A) >= 4}

\* Calls of inverse alone, on those matrices and on homogeneous transforms.
InverseScenarios ==
    {Scenario("inverse", A, <<>>, <<>>, Zero) :
        A \in GaussJordanMatrices \cup Transforms2 \cup Transforms3}

InitInverse ==
    /\ \E sc \in InverseScenarios : heap = HeapOf(sc) /\ call = CallOf(sc)
    /\ pc = "ready"
    /\ res = NoResult
    /\ aug = 0
    /\ col = 0
    /\ maxRow = 0
    /\ writes = 0

NextInverse ==
    \/ CallInverse
    \/ GJFindPivot
    \/ GJSwapRows
    \/ GJScalePivotRow
    \/ GJEliminateColumn
    \/ GJExtract

\* A call of inverse, step by step.
SpecInverse == InitInverse /\ [][NextInverse]_vars

(***************************************************************************)
(* A caller's chain of calls.  The caller holds some matrices (mats, at    *)
(* the addresses 1..Len(mats)) and makes the calls of its plan one after   *)
(* the other; a call may take the matrix an earlier call returned, which   *)
(* lies at the address after the matrices allocated before it.             *)
(***************************************************************************)
Step(op, a, b, args) == [op |-> op, a |-> a, b |-> b, args |-> args]

\* The i-th call of the plan; params is the caller's record of the numbers
\* its matrices were built from.
PlannedCall(plan, params, i) ==
    [op |-> plan[i].op, a |-> plan[i].a, b |-> plan[i].b, v |-> 0, s |-> Zero,
     args |-> plan[i].args, plan |-> plan, step |-> i, params |-> params]

RECURSIVE HeapOfMatrices(_)
HeapOfMatrices(mats) ==
    IF mats = <<>> THEN EmptyHeap
    ELSE AllocMatrix(HeapOfMatrices(SubSeq(mats, 1, Len(mats) - 1)), mats[Len(mats)])

\* The next call on transforms when the heap holds n matrices, the first
\* two being the caller's own: the product of two of them, one of the
\* factors being one of the caller's own, or the inverse (inv names the
\* inverse of the transforms' size) of one of them.
ChainSteps(inv, n) ==
    {Step("multiply", x, y, <<>>) : x \in 1..2, y \in 1..n}
    \cup {Step("multiply", x, y, <<>>) : x \in 3..n, y \in 1..2}
    \cup {Step(inv, x, 0, <<>>) : x \in 1..n}

\* The plans of len such calls, begun with n matrices on the heap.
RECURSIVE ChainPlans(_, _, _)
ChainPlans(inv, n, len) ==
    IF len = 0 THEN {<<>>}
    ELSE {<<st>> \o rest : st \in ChainSteps(inv, n), rest \in ChainPlans(inv, n + 1, len - 1)}

\* 2D transforms from homogeneousTransform2D.
ChainTransforms2 ==
    {homogeneousTransform2D(Angle(1), Q(1), Q(-MaxVal)),
     homogeneousTransform2D(Angle(5), Q(0), Q(MaxVal)),
     homogeneousTransform2D(Angle(9), Q(-1), Q(0))}

\* 3D transforms that turn about the Z axis by an angle of a 3-4-5
\* triangle, from homogeneousRotationZ, homogeneousTransform3D, dhTransform.
ChainTurnsZ ==
    {homogeneousRotationZ(Angle(1)),
     homogeneousTransform3D(rotationMatrixZ(Angle(4)), <<Q(1), Q(-MaxVal), Q(MaxVal)>>),
     dhTransform(Q(1), Angle(0), Norm(5, 1, -1), Angle(2))}

\* 3D transforms that turn by quarter turns, and a translation.
ChainQuarterTurns ==
    {translationMatrix(Q(1), Q(-MaxVal), Q(0)),
     homogeneousRotationX(Angle(3)),
     homogeneousRotationY(Angle(6)),
     dhTransform(Q(-MaxVal), Angle(3), Q(0), Angle(9)),
     homogeneousTransform3D(rotationMatrixFromEuler(Angle(3), Angle(6), Angle(9)),
                            <<Q(0), Q(1), Q(MaxVal)>>)}

\* The four factors of the Denavit-Hartenberg sequence for (a, alpha, d,
\* theta) and the three products that compose them from the left.
DhFactors(a, alpha, d, theta) ==
    <<homogeneousRotationZ(theta), translationMatrix(Zero, Zero, d),
      translationMatrix(a, Zero, Zero), homogeneousRotationX(alpha)>>
DhPlan ==
    <<Step("multiply", 1, 2, <<>>), Step("multiply", 5, 3, <<>>),
      Step("multiply", 6, 4, <<>>)>>

\* 3x3 and 4x4 matrices with bottom row (0, .., 0, 1): rigid transforms and
\* matrices whose upper rows count up from k.
AffineMatrices(n) ==
    {[i \in 1..n |-> IF i = n THEN [j \in 1..n |-> IF j = n THEN One ELSE Zero]
                              ELSE CountMat(n, n, k)[i]] : k \in {-MaxVal, 1}}
    \cup (IF n = 3 THEN ChainTransforms2 ELSE ChainTurnsZ \cup ChainQuarterTurns)

\* multiply(A, B), then transformPoint of the product and the point p.
ComposePlan(op, p) == <<Step("multiply", 1, 2, <<>>), Step(op, 3, 0, <<p>>)>>

\* The heap and the first call of a caller that holds mats and follows plan.
StartChain(mats, plan, params) ==
    /\ heap = HeapOfMatrices(mats)
    /\ call = PlannedCall(plan, params, 1)

InitChain ==
    /\ \/ \E A \in ChainTransforms2 : \E B \in ChainTransforms2 :
          \E plan \in ChainPlans("inverseTransform2D", 2, MaxCalls) :
             StartChain(<<A, B>>, plan, <<>>)
       \/ \E A \in ChainTurnsZ : \E B \in ChainQuarterTurns :
          \E plan \in ChainPlans("inverseTransform3D", 2, MaxCalls) :
             StartChain(<<A, B>>, plan, <<>>)
       \/ \E a \in LinkLengths : \E alpha \in Angles : \E d \in LinkOffsets :
          \E theta \in Angles :
             StartChain(DhFactors(a, alpha, d, theta), DhPlan, <<a, alpha, d, theta>>)
       \/ \E A \in AffineMatrices(3) : \E B \in AffineMatrices(3) : \E p \in Vectors2 :
             StartChain(<<A, B>>, ComposePlan("transformPoint2D", p), <<>>)
       \/ \E A \in AffineMatrices(4) : \E B \in AffineMatrices(4) : \E p \in Vectors3 :
             StartChain(<<A, B>>, ComposePlan("transformPoint3D", p), <<>>)
    /\ pc = "ready"
    /\ res = NoResult
    /\ aug = 0
    /\ col = 0
    /\ maxRow = 0
    /\ writes = 0

\* After a call has returned, the caller makes the next call of its plan.
CallerNext ==
    /\ pc = "returned"
    /\ call.step < Len(call.plan)
    /\ call' = PlannedCall(call.plan, call.params, call.step + 1)
    /\ pc' = "ready"
    /\ res' = NoResult
    /\ UNCHANGED <<heap, aug, col, maxRow, writes>>

NextChain ==
    \/ CallMultiply
    \/ CallInverseTransform2D
    \/ CallInverseTransform3D
    \/ CallTransformPoint2D
    \/ CallTransformPoint3D
    \/ CallerNext

\* Chains of calls on homogeneous transforms.
SpecChain == InitChain /\ [][NextChain]_vars

(***************************************************************************)
(* eulerFromRotationMatrix alone, on matrices built from Euler angles and  *)
(* on 3x3 matrices written by hand that are not rotations.                 *)
(***************************************************************************)
\* [[3s, 0, 0], [4s, 0, 0], [-12p, 3s, 4s]]: sy = 5, and the zero matrix,
\* 2 * identity and a matrix whose first column is (0, 0, 5).
HandBuiltMatrices ==
    {<< <<Q(3 * s), Zero, Zero>>, <<Q(4 * s), Zero, Zero>>, <<Q(-12 * p), Q(3 * s), Q(4 * s)>> >> :
        s \in {-1, 1}, p \in {-1, 0, 1}}
    \cup {zeros(3, 3), BandMat(3, 2, 0, 0, 0, FALSE, Zero),
          << <<Zero, Zero, Zero>>, <<Zero, Q(4), Q(-3)>>, <<Q(5), Zero, Zero>> >>}

InitEuler ==
    /\ \/ \E sc \in AngleScenarios :
            sc.op = "eulerFromRotationMatrix" /\ heap = HeapOf(sc) /\ call = CallOf(sc)
       \/ \E R \in HandBuiltMatrices :
            LET sc == ArgScenario("eulerFromRotationMatrix", R, <<>>)
            IN heap = HeapOf(sc) /\ call = CallOf(sc)
    /\ pc = "ready"
    /\ res = NoResult
    /\ aug = 0
    /\ col = 0
    /\ maxRow = 0
    /\ writes = 0

NextEuler == CallEulerFromRotationMatrix

SpecEuler == InitEuler /\ [][NextEuler]_vars

(***************************************************************************)
(* Concurrent callers.  Several calls are under way on one heap and share  *)
(* the input matrix at address 1.  The variables call, pc, res, aug, col   *)
(* and maxRow hold the call that takes the next step; call.others holds    *)
(* the suspended calls.  A step of the scheduler (Switch) suspends the     *)
(* running call between two of its steps and resumes another one.          *)
(***************************************************************************)
\* The matrices the concurrent calls share.
SharedMatrices ==
    {BandMat(MaxDim, d, u, l, 0, FALSE, Zero) : d \in {0, MaxVal}, u \in {0, 1}, l \in {-1, 0}}
    \cup {BandMat(MaxDim, -MaxVal, 0, 0, z, TRUE, Tiny) : z \in {0, 1}}
    \cup {CountMat(n, n, 1) : n \in {2, 3}} \cup {CountMat(2, 3, 1)}

\* The operations started together on the shared matrix.
ConcurrentOps ==
    {<<"inverse", "inverse">>, <<"inverse", "multiply">>, <<"multiply", "inverse">>,
     <<"multiply", "multiply">>}

\* A call of op on the shared matrix (multiply(A, A)) that has not taken a
\* step; args is the caller's record of the value it passed.
FreshCall(op, A) ==
    [call |-> [op |-> op, a |-> 1, b |-> IF op = "multiply" THEN 1 ELSE 0,
               v |-> 0, s |-> Zero, args |-> <<A>>],
     pc |-> "ready", res |-> NoResult, aug |-> 0, col |-> 0, maxRow |-> 0]

\* The matrix three calls share.
SharedByThree == BandMat(MaxDim, 1, MaxVal, -1, 0, FALSE, Zero)

InitConcurrent ==
    /\ \E A \in SharedMatrices \cup {SharedByThree} :
       \E ops \in IF A = SharedByThree THEN {<<"inverse", "multiply", "inverse">>}
                                        ELSE ConcurrentOps :
          /\ heap = AllocMatrix(EmptyHeap, A)
          /\ call = FreshCall(ops[1], A).call
                        @@ [others |-> [i \in 1..(Len(ops) - 1) |-> FreshCall(ops[i + 1], A)]]
    /\ pc = "ready"
    /\ res = NoResult
    /\ aug = 0
    /\ col = 0
    /\ maxRow = 0
    /\ writes = 0

\* The running call, as it is suspended.
Running ==
    [call |-> [f \in DOMAIN call \ {"others"} |-> call[f]],
     pc |-> pc, res |-> res, aug |-> aug, col |-> col, maxRow |-> maxRow]

Switch ==
    /\ \E i \in DOMAIN call.others :
          LET o == call.others[i]
          IN /\ call' = o.call @@ [others |-> [call.others EXCEPT ![i] = Running]]
             /\ pc' = o.pc
             /\ res' = o.res
             /\ aug' = o.aug
             /\ col' = o.col
             /\ maxRow' = o.maxRow
    /\ UNCHANGED <<heap, writes>>

NextConcurrent ==
    \/ CallMultiply
    \/ CallInverse
    \/ GJFindPivot
    \/ GJSwapRows
    \/ GJScalePivotRow
    \/ GJEliminateColumn
    \/ GJExtract
    \/ Switch

\* Calls on a shared matrix, their steps interleaved in every order.
SpecConcurrent == InitConcurrent /\ [][NextConcurrent]_vars

(***************************************************************************)
(* Properties                                                              *)
(***************************************************************************)
Done == pc \in {"returned", "thrown"}
Returned(op) == call.op = op /\ pc = "returned" /\ writes = 0
Finished(op) == call.op = op /\ Done /\ writes = 0

\* The value the call returned.
ResultValue ==
    IF res.kind = "matrix" THEN ValueOf(heap, res.ref)
    ELSE IF res.kind = "vector" THEN heap.rows[res.ref]
    ELSE IF res.kind = "number" THEN res.val
    ELSE <<>>

Thrown(kind) == pc = "thrown" /\ res.kind = kind

Rows(m) == Len(m)
Cols(m) == Len(m[1])
IsShape(m, r, c) == Len(m) = r /\ \A i \in 1..r : Len(m[i]) = c

\* The integer a number with denominator 1 and no negative exponent stands for.
IntOf(x) == x[1] * Pow10(x[3])

\* sum over k = n down to 1 of a[i][k] * b[k][j], in integers
RECURSIVE IntDot(_, _, _, _, _)
IntDot(a, b, i, j, k) ==
    IF k = 0 THEN 0 ELSE IntOf(a[i][k]) * IntOf(b[k][j]) + IntDot(a, b, i, j, k - 1)

\* C1: multiply(a, b) with a.cols = b.rows returns the rows(a) x cols(b)
\* matrix whose entry (i, j) is the sum over k of a[i][k] * b[k][j];
\* [[1,2],[3,4]] * [[5,6],[7,8]] = [[19,22],[43,50]], and 1x3 times 3x1 is 1x1.
C1_MultiplyEntries ==
    (Finished("multiply") /\ Cols(A0) = Rows(B0)) =>
        /\ pc = "returned" /\ res.kind = "matrix"
        /\ IsShape(ResultValue, Rows(A0), Cols(B0))
        /\ \A i \in 1..Rows(A0) : \A j \in 1..Cols(B0) :
              ResultValue[i][j] = Q(IntDot(A0, B0, i, j, Cols(A0)))
        /\ (A0 = CountMat(2, 2, 1) /\ B0 = CountMat(2, 2, 5)) =>
              ResultValue = << <<Q(19), Q(22)>>, <<Q(43), Q(50)>> >>
        /\ (Rows(A0) = 1 /\ Cols(A0) = 3 /\ Cols(B0) = 1) => IsShape(ResultValue, 1, 1)

C1_Witness ==
    /\ Returned("multiply")
    /\ A0 = CountMat(2, 2, 1) /\ B0 = CountMat(2, 2, 5)
    /\ ResultValue[2][1] = Q(43)

C1_WitnessRowTimesColumn ==
    /\ Returned("multiply")
    /\ IsShape(A0, 1, 3) /\ IsShape(B0, 3, 1) /\ IsShape(ResultValue, 1, 1)

\* The arrays the caller built before the call are all the arrays there are:
\* the call allocated nothing.
NothingAllocated ==
    /\ Len(heap.mats) = (IF call.b = 0 THEN 1 ELSE 2)
    /\ Len(heap.rows) = Len(heap.mats[1]) + (IF call.b = 0 THEN 0 ELSE Len(heap.mats[2]))
                          + (IF call.v = 0 THEN 0 ELSE 1)

\* C2: multiply throws DimensionMismatch iff a.cols # b.rows, add and
\* subtract iff the shapes differ, applyToVector iff m.cols # v.length; a call
\* that throws returns no matrix or vector.
C2_DimensionMismatchExactly ==
    /\ Finished("multiply") => (Thrown("DimensionMismatch") <=> Cols(A0) # Rows(B0))
    /\ Finished("add") =>
          (Thrown("DimensionMismatch") <=> (Rows(A0) # Rows(B0) \/ Cols(A0) # Cols(B0)))
    /\ Finished("subtract") =>
          (Thrown("DimensionMismatch") <=> (Rows(A0) # Rows(B0) \/ Cols(A0) # Cols(B0)))
    /\ Finished("applyToVector") => (Thrown("DimensionMismatch") <=> Cols(A0) # Len(V0))
    /\ (Done /\ call.op \in {"multiply", "add", "subtract", "applyToVector"}) =>
          (pc = "thrown" <=> res.kind = "DimensionMismatch")
    /\ Thrown("DimensionMismatch") => NothingAllocated

C2_Witness ==
    /\ Finished("add") /\ Thrown("DimensionMismatch")
    /\ Rows(A0) = Rows(B0) /\ Cols(A0) # Cols(B0)
\* The permutations of 1..n, for every size the model uses.
PermsOfSize ==
    [n \in 1..(MaxDim + 1) |->
        {p \in [1..n -> 1..n] : \A i, j \in 1..n : p[i] = p[j] => i = j}]

Inversions(p, n) == Cardinality({ij \in (1..n) \X (1..n) : ij[1] < ij[2] /\ p[ij[1]] > p[ij[2]]})

RECURSIVE ProductAlong(_, _, _)
ProductAlong(m, p, i) == IF i = 0 THEN One ELSE NMul(ProductAlong(m, p, i - 1), m[i][p[i]])

RECURSIVE SumOver(_, _)
SumOver(m, ps) ==
    IF ps = {} THEN Zero
    ELSE LET p == CHOOSE q \in ps : TRUE
             term == ProductAlong(m, p, Len(m))
         IN NAdd(IF Inversions(p, Len(m)) % 2 = 0 THEN term ELSE NNeg(term),
                 SumOver(m, ps \ {p}))

\* The Leibniz (permutation-sum) determinant of a square matrix, summed in
\* groups of the permutations that send row 1 to the same column.
RECURSIVE SumGroups(_, _)
SumGroups(m, j) ==
    IF j = 0 THEN Zero
    ELSE NAdd(SumGroups(m, j - 1), SumOver(m, {p \in PermsOfSize[Len(m)] : p[1] = j}))

LeibnizDet(m) == SumGroups(m, Len(m))

IsSquare(m) == Rows(m) = Cols(m)
HasZeroRow(m) == \E i \in 1..Rows(m) : \A j \in 1..Cols(m) : m[i][j] = Zero

\* C3: for every square matrix of size 1..MaxDim determinant returns the
\* Leibniz determinant (so 1 for an identity and 0 for a matrix with a zero
\* row); for a non-square matrix it throws NotSquare and returns no number.
C3_DeterminantIsLeibniz ==
    Finished("determinant") =>
        /\ IsSquare(A0) =>
              /\ pc = "returned" /\ res.kind = "number"
              /\ res.val = LeibnizDet(A0)
              /\ (A0 = identity(Rows(A0))) => res.val = One
              /\ HasZeroRow(A0) => res.val = Zero
        /\ ~IsSquare(A0) => Thrown("NotSquare")

C3_Witness ==
    /\ Returned("determinant")
    /\ Rows(A0) = 4 /\ ~HasZeroRow(A0)
    /\ res.val # Zero /\ res.val # NMul(NMul(A0[1][1], A0[2][2]), NMul(A0[3][3], A0[4][4]))

C3_WitnessNotSquare == Finished("determinant") /\ ~IsSquare(A0) /\ Thrown("NotSquare")

\* C6: multiply(A, identity(n)) and multiply(identity(m), A) return a matrix
\* of A's shape with A's entries, for every m x n matrix A.
C6_IdentityLaws ==
    /\ (Finished("multiply") /\ B0 = [i \in 1..Cols(A0) |->
                                        [j \in 1..Cols(A0) |-> IF i = j THEN Q(1) ELSE Q(0)]]) =>
          (pc = "returned" /\ res.kind = "matrix" /\ ResultValue = A0)
    /\ (Finished("multiply") /\ A0 = [i \in 1..Rows(B0) |->
                                        [j \in 1..Rows(B0) |-> IF i = j THEN Q(1) ELSE Q(0)]]) =>
          (pc = "returned" /\ res.kind = "matrix" /\ ResultValue = B0)

C6_Witness ==
    /\ Returned("multiply")
    /\ IsShape(A0, 2, 3) /\ B0 = identity(3)
    /\ ResultValue = CountMat(2, 3, 1)

C6_WitnessLeft ==
    /\ Returned("multiply")
    /\ A0 = identity(3) /\ IsShape(B0, 3, 4)
    /\ ResultValue = CountMat(3, 4, 5)

\* C7: transpose(A) of a rows x cols matrix is cols x rows with
\* transpose(A)[j][i] = A[i][j], and transposing the result gives A back.
C7_TransposeInvolution ==
    Finished("transpose") =>
        /\ pc = "returned" /\ res.kind = "matrix"
        /\ IsShape(ResultValue, Cols(A0), Rows(A0))
        /\ \A i \in 1..Rows(A0) : \A j \in 1..Cols(A0) : ResultValue[j][i] = A0[i][j]
        /\ IsShape(transpose(ResultValue), Rows(A0), Cols(A0))
        /\ \A i \in 1..Rows(A0) : \A j \in 1..Cols(A0) :
              transpose(ResultValue)[i][j] = A0[i][j]

C7_Witness ==
    /\ Returned("transpose")
    /\ IsShape(A0, 2, 3) /\ IsShape(ResultValue, 3, 2)
    /\ ResultValue[3][1] = A0[1][3] /\ ResultValue[3][1] # ResultValue[1][2]
IsInverseOf(B, A) ==
    /\ multiply(A, B) = Ok(identity(Rows(A)))
    /\ multiply(B, A) = Ok(identity(Rows(A)))

NonSingular(m) == ~NLt(NAbs(LeibnizDet(m)), Tol)

\* C4 as stated: inverse(A) returns, for every square A of size 1..MaxDim
\* with |det A| >= 1e-10, a matrix B with A * B = I and B * A = I.
C4_InverseOfEveryNonSingular ==
    (Finished("inverse") /\ IsSquare(A0) /\ NonSingular(A0)) =>
        (pc = "returned" /\ res.kind = "matrix" /\ IsInverseOf(ResultValue, A0))

\* C4, amended: whenever inverse(A) returns a matrix B, A is square and
\* A * B = I and B * A = I; it returns for every square A with
\* |det A| >= 1e-10 of size at most 3; sizes 2 and 3 take the closed forms,
\* every other size (1 and 4 and more) the Gauss-Jordan loop.
C4_InverseLawWhenReturned ==
    /\ Returned("inverse") =>
          /\ res.kind = "matrix" /\ IsSquare(A0)
          /\ IsInverseOf(ResultValue, A0)
          /\ (aug = 0) <=> (Rows(A0) \in {2, 3})
    /\ (Finished("inverse") /\ IsSquare(A0) /\ NonSingular(A0) /\ Rows(A0) <= 3) =>
          pc = "returned"

RowsWereSwapped == aug # 0 /\ \E i \in 1..Len(heap.mats[aug]) :
                       heap.mats[aug][i] # heap.mats[aug][1] + i - 1

C4_Witness ==
    /\ Returned("inverse")
    /\ Rows(A0) = 4 /\ RowsWereSwapped
    /\ ResultValue # A0

C4_WitnessClosedForm == Returned("inverse") /\ Rows(A0) = 3 /\ ResultValue # A0

\* C5: inverse throws NotSquare for a non-square matrix; for a square one it
\* throws Singular whenever |det| < 1e-10, at every size and before any
\* elimination step; when it throws, no matrix is returned; for a square
\* matrix of size at most 3 with |det| >= 1e-10 it does not throw.
C5_InverseFailures ==
    /\ (call.op = "inverse" /\ pc # "ready" /\ ~IsSquare(A0)) => Thrown("NotSquare")
    /\ (call.op = "inverse" /\ pc # "ready" /\ writes = 0 /\ IsSquare(A0) /\ ~NonSingular(A0)) =>
          (Thrown("Singular") /\ aug = 0)
    /\ (call.op = "inverse" /\ pc = "thrown") =>
          /\ res.kind \in {"NotSquare", "Singular"}
          /\ Len(heap.mats) = (IF aug = 0 THEN 1 ELSE 2)
    /\ (Finished("inverse") /\ IsSquare(A0) /\ NonSingular(A0) /\ Rows(A0) <= 3) =>
          pc = "returned"

C5_Witness ==
    /\ Finished("inverse") /\ Thrown("Singular")
    /\ Rows(A0) = 3 /\ LeibnizDet(A0) # Zero

C5_WitnessLarge ==
    /\ Finished("inverse") /\ Thrown("Singular")
    /\ Rows(A0) = 4 /\ LeibnizDet(A0) # Zero /\ aug = 0

C5_WitnessNotSquare == Finished("inverse") /\ Thrown("NotSquare") /\ Rows(A0) < Cols(A0)

\* The values of the arrays the caller passed.
ArgsValue ==
    [a |-> IF call.a = 0 THEN <<>> ELSE A0,
     b |-> IF call.b = 0 THEN <<>> ELSE B0,
     v |-> IF call.v = 0 THEN <<>> ELSE V0]

RowsOf(m) == {heap.mats[m][i] : i \in 1..Len(heap.mats[m])}

AllArgRows ==
    (IF call.a = 0 THEN {} ELSE RowsOf(call.a)) \cup (IF call.b = 0 THEN {} ELSE RowsOf(call.b))
    \cup (IF call.v = 0 THEN {} ELSE {call.v})

AllResultRows ==
    IF res.kind = "matrix" THEN RowsOf(res.ref)
    ELSE IF res.kind = "vector" THEN {res.ref}
    ELSE {}

\* C8: a returned matrix or vector shares no array with an argument: its
\* outer array and rows are none of the arguments', and a later store into
\* an element of an argument leaves the result's value unchanged, as a store
\* into the result leaves the arguments' values unchanged.
C8_NoSharedStorage ==
    /\ [](pc = "returned" =>
            /\ AllResultRows \cap AllArgRows = {}
            /\ res.kind = "matrix" => res.ref \notin {call.a, call.b})
    /\ [][pc = "returned" =>
            ~(ArgsValue' # ArgsValue /\ ResultValue' # ResultValue)]_vars

C8_Witness ==
    /\ call.op = "create" /\ pc = "returned" /\ writes = 1
    /\ A0[1][1] = Poison /\ ResultValue[1][1] = One

C8_WitnessResultWritten ==
    /\ call.op = "homogeneousTransform3D" /\ pc = "returned" /\ writes = 1
    /\ ResultValue[1][1] = Poison /\ A0[1][1] # Poison

\* C9: no step of a call changes an argument: from the call to its return or
\* throw, through every Gauss-Jordan step, the arguments keep their values.
C9_ArgumentsUnchanged == [][pc # "returned" => ArgsValue' = ArgsValue]_vars

C9_Witness ==
    /\ call.op = "inverse" /\ pc = "returned" /\ writes = 0
    /\ Rows(A0) = 4 /\ RowsWereSwapped
    /\ Len(A0[1]) = 4 /\ Len(Augmented[1]) = 8

C9_WitnessThrown ==
    /\ call.op = "inverse" /\ Thrown("Singular") /\ aug # 0
    /\ Len(A0[1]) = 4 /\ Augmented # augmentedRows(A0)

\* C10: for T = homogeneousTransform2D(theta, tx, ty), and for
\* T = homogeneousTransform3D(R, t) with R a rotation, the matrix returned by
\* inverseTransform2D / inverseTransform3D multiplies with T to the identity
\* on both sides.
C10_RigidInverse ==
    /\ Finished("inverseTransform2D") =>
          /\ pc = "returned"
          /\ multiply(A0, ResultValue) = Ok(identity(3))
          /\ multiply(ResultValue, A0) = Ok(identity(3))
    /\ Finished("inverseTransform3D") =>
          /\ pc = "returned"
          /\ multiply(A0, ResultValue) = Ok(identity(4))
          /\ multiply(ResultValue, A0) = Ok(identity(4))

C10_Witness ==
    /\ Returned("inverseTransform3D")
    /\ A0[1][2] # Zero /\ A0[1][3] # Zero /\ A0[2][3] # Zero
    /\ A0[1][4] # Zero /\ A0[3][4] # Zero
    /\ ResultValue # A0

C10_Witness2D ==
    /\ Returned("inverseTransform2D")
    /\ A0[1][1] = Norm(3, 5, 0) /\ A0[1][3] # Zero /\ A0[2][3] # Zero

(***************************************************************************)
(* Euler angles                                                            *)
(***************************************************************************)
\* The ZYX rotation matrix written out entry by entry.
ZYXEntries(roll, pitch, yaw) ==
    LET cr == MathCos(roll)
        sr == MathSin(roll)
        cp == MathCos(pitch)
        sp == MathSin(pitch)
        cy == MathCos(yaw)
        sy == MathSin(yaw)
    IN << <<NMul(cy, cp), NSub(NMul(NMul(cy, sp), sr), NMul(sy, cr)),
            NAdd(NMul(NMul(cy, sp), cr), NMul(sy, sr))>>,
          <<NMul(sy, cp), NAdd(NMul(NMul(sy, sp), sr), NMul(cy, cr)),
            NSub(NMul(NMul(sy, sp), cr), NMul(cy, sr))>>,
          <<NNeg(sp), NMul(cp, sr), NMul(cp, cr)>> >>

\* Rx(roll) * Ry(pitch) * Rz(yaw), the product in the opposite order.
XYZProduct(roll, pitch, yaw) ==
    multiply(multiply(rotationMatrixX(roll), rotationMatrixY(pitch)).val,
             rotationMatrixZ(yaw)).val

Commute(a, b) == multiply(a, b) = multiply(b, a)

\* The three axis rotations commute pairwise.
RotationsCommute(roll, pitch, yaw) ==
    /\ Commute(rotationMatrixX(roll), rotationMatrixY(pitch))
    /\ Commute(rotationMatrixX(roll), rotationMatrixZ(yaw))
    /\ Commute(rotationMatrixY(pitch), rotationMatrixZ(yaw))

\* The angle is a whole number of half turns.
IsHalfTurns(theta) == MathSin(theta) = Zero

Roll == call.args[1]
Pitch == call.args[2]
Yaw == call.args[3]

C11_WitnessYawOnly ==
    /\ Returned("rotationMatrixFromEuler")
    /\ Roll = Angle(0) /\ Pitch = Angle(0) /\ Yaw = Angle(3)

\* The angle lies in (-pi, pi], the range of Math.atan2.
InAtan2Range(theta) == theta.turns = 0

\* The angle lies strictly between -pi/2 and pi/2.
InsideQuarterTurn(theta) == theta.turns = 0 /\ NGt(MathCos(theta), Zero)

\* The angle is not an odd number of quarter turns.
AwayFromQuarterTurn(theta) == MathCos(theta) # Zero

ReEncoded(angles) == rotationMatrixFromEuler(angles[1], angles[2], angles[3])

\* C12 as stated: for any (roll, pitch, yaw) with pitch away from +-90
\* degrees, eulerFromRotationMatrix(rotationMatrixFromEuler(roll, pitch, yaw))
\* is the same three angles, and re-encoding them gives the same matrix.
C12_RoundTripAnyAngles ==
    (Finished("eulerFromRotationMatrix") /\ AwayFromQuarterTurn(Pitch)) =>
        /\ pc = "returned"
        /\ res.val = <<Roll, Pitch, Yaw>>
        /\ ReEncoded(res.val) = A0

\* C12, amended: for any (roll, pitch, yaw) with pitch away from +-90
\* degrees the recovered angles re-encode to the same rotation matrix; they
\* are the same three angles when pitch lies strictly between -pi/2 and pi/2
\* and roll and yaw lie in (-pi, pi].
C12_RoundTrip ==
    (Finished("eulerFromRotationMatrix") /\ AwayFromQuarterTurn(Pitch)) =>
        /\ pc = "returned" /\ res.kind = "angles"
        /\ ReEncoded(res.val) = A0
        /\ (InsideQuarterTurn(Pitch) /\ InAtan2Range(Roll) /\ InAtan2Range(Yaw)) =>
              res.val = <<Roll, Pitch, Yaw>>

C12_Witness ==
    /\ Returned("eulerFromRotationMatrix")
    /\ Roll = Angle(-4) /\ Pitch = Angle(2) /\ Yaw = Angle(3)
    /\ res.val = <<Roll, Pitch, Yaw>>

C12_WitnessOtherAngles ==
    /\ Returned("eulerFromRotationMatrix")
    /\ Roll = Angle(1) /\ Pitch = Angle(5) /\ Yaw = Angle(2)
    /\ res.val # <<Roll, Pitch, Yaw>>
    /\ ReEncoded(res.val) = A0

\* sqrt(R[0][0]^2 + R[1][0]^2) of the matrix passed, squared.
SySquared == NAdd(NMul(A0[1][1], A0[1][1]), NMul(A0[2][1], A0[2][1]))

\* C13: for R = rotationMatrixFromEuler(roll, pitch, yaw) with pitch an odd
\* number of quarter turns (+pi/2, -pi/2), sy is below 1e-6 and
\* eulerFromRotationMatrix(R) returns yaw' = 0 exactly and
\* roll' = atan2(-R[1][2], R[1][1]), and rotationMatrixFromEuler(roll',
\* pitch', 0) is R again.
C13_GimbalLock ==
    (Finished("eulerFromRotationMatrix") /\ ~AwayFromQuarterTurn(Pitch)) =>
        /\ pc = "returned" /\ res.kind = "angles"
        /\ NLt(SySquared, Norm(1, 1, -12))
        /\ res.val[3] = Angle(0)
        /\ res.val[1] = MathAtan2(NNeg(A0[2][3]), A0[2][2])
        /\ ReEncoded(<<res.val[1], res.val[2], Angle(0)>>) = A0

C13_Witness ==
    /\ Returned("eulerFromRotationMatrix")
    /\ Roll = Angle(1) /\ Pitch = Angle(3) /\ Yaw = Angle(2)
    /\ res.val[3] # Yaw
    /\ res.val[1] # Roll

C13_WitnessMinus ==
    /\ Returned("eulerFromRotationMatrix")
    /\ Roll = Angle(-1) /\ Pitch = Angle(-3) /\ Yaw = Angle(2)
    /\ res.val[3] # Yaw

(***************************************************************************)
(* Rotation validity                                                       *)
(***************************************************************************)
NLe(x, y) == ~NLt(y, x)

\* x is within epsilon of y: |x - y| <= epsilon.
Within(x, y, epsilon) == NLe(NAbs(NSub(x, y)), epsilon)

\* R is square of size 2 or 3, every entry of transpose(R) * R is within
\* epsilon of the identity's and det(R) is within epsilon of 1.
IsRotationWithin(R, epsilon) ==
    /\ IsSquare(R)
    /\ Rows(R) \in {2, 3}
    /\ LET RtR == multiply(transpose(R), R).val
           I == identity(Rows(R))
       IN \A i, j \in 1..Rows(R) : Within(RtR[i][j], I[i][j], epsilon)
    /\ Within(LeibnizDet(R), One, epsilon)

\* C14: isValidRotationMatrix(R, epsilon) returns true iff R is square of
\* size 2 or 3, every entry of transpose(R) * R is within epsilon of the
\* identity and det(R) is within epsilon of +1; it never throws.
C14_ValidIffRotationWithin ==
    Finished("isValidRotationMatrix") =>
        /\ pc = "returned" /\ res.kind = "boolean"
        /\ res.val = IsRotationWithin(A0, call.args[1])

\* Every matrix the rotation constructors return for the modelled angles.
RotationOutputs ==
    {rotationMatrix2D(k) : k \in Angles}
    \cup {rotationMatrixX(k) : k \in Angles}
    \cup {rotationMatrixY(k) : k \in Angles}
    \cup {rotationMatrixZ(k) : k \in Angles}
    \cup {rotationMatrixFromEuler(r, p, y) : r \in Angles, p \in Angles, y \in Angles}

\* C15: isValidRotationMatrix, with its default epsilon, returns true for
\* every matrix returned by rotationMatrix2D, rotationMatrixX / Y / Z and
\* rotationMatrixFromEuler; such a matrix R has transpose(R) * R = I and
\* det(R) = +1.
C15_ConstructedRotationsAreValid ==
    (Finished("isValidRotationMatrix") /\ call.args[1] = DefaultRotationEpsilon
        /\ A0 \in RotationOutputs) =>
        /\ pc = "returned"
        /\ res.val = TRUE
        /\ multiply(transpose(A0), A0) = Ok(identity(Rows(A0)))
        /\ LeibnizDet(A0) = One

C15_Witness ==
    /\ Returned("isValidRotationMatrix")
    /\ call.args[1] = DefaultRotationEpsilon
    /\ A0 = rotationMatrixFromEuler(Angle(1), Angle(5), Angle(8))
    /\ res.val = TRUE

C15_Witness2D ==
    /\ Returned("isValidRotationMatrix")
    /\ call.args[1] = DefaultRotationEpsilon
    /\ A0 = rotationMatrix2D(Angle(4))
    /\ res.val = TRUE

(***************************************************************************)
(* Denavit-Hartenberg transform and points                                 *)
(***************************************************************************)
Origin3 == [x |-> Zero, y |-> Zero, z |-> Zero]

\* C16: dhTransform(a, alpha, d, theta) returns the 4x4 matrix with rows
\* [cos t, -sin t * cos al, sin t * sin al, a * cos t],
\* [sin t, cos t * cos al, -cos t * sin al, a * sin t], [0, sin al, cos al, d],
\* [0, 0, 0, 1]; it maps the origin to (a * cos t, a * sin t, d) whatever
\* alpha is, and dhTransform(0, 0, 0, 0) is identity(4).
C16_DhTransform ==
    Finished("dhTransform") =>
        LET a == call.args[1]
            d == call.args[3]
            ct == MathCos(call.args[4])
            st == MathSin(call.args[4])
            ca == MathCos(call.args[2])
            sa == MathSin(call.args[2])
        IN /\ pc = "returned" /\ res.kind = "matrix"
           /\ ResultValue =
                << <<ct, NNeg(NMul(st, ca)), NMul(st, sa), NMul(a, ct)>>,
                   <<st, NMul(ct, ca), NNeg(NMul(ct, sa)), NMul(a, st)>>,
                   <<Zero, sa, ca, d>>,
                   <<Zero, Zero, Zero, One>> >>
           /\ transformPoint3D(ResultValue, Origin3) =
                [x |-> NMul(a, ct), y |-> NMul(a, st), z |-> d]
           /\ (a = Zero /\ d = Zero /\ call.args[2] = Angle(0) /\ call.args[4] = Angle(0)) =>
                ResultValue = identity(4)

C16_Witness ==
    /\ Returned("dhTransform")
    /\ call.args = <<One, Angle(3), Norm(5, 1, -1), Angle(1)>>
    /\ transformPoint3D(ResultValue, Origin3) =
          [x |-> Norm(4, 5, 0), y |-> Norm(3, 5, 0), z |-> Norm(5, 1, -1)]

C16_WitnessIdentity ==
    /\ Returned("dhTransform")
    /\ call.args = <<Zero, Angle(0), Zero, Angle(0)>>
    /\ ResultValue = identity(4)

\* C17: transformPoint2D(T, p) is the first two components of
\* applyToVector(T, [p.x, p.y, 1]) for a 3x3 T, transformPoint3D(T, p) the
\* first three of applyToVector(T, [p.x, p.y, p.z, 1]) for a 4x4 T; when the
\* bottom row of T is (0, .., 0, 1) the last component of that product is 1.
C17_TransformPointIsHomogeneousProduct ==
    /\ Finished("transformPoint2D") =>
          LET p == call.args[1]
              h == applyToVector(A0, <<p.x, p.y, One>>)
          IN /\ pc = "returned"
             /\ h.kind = "ok"
             /\ res.val = [x |-> h.val[1], y |-> h.val[2]]
             /\ A0[3] = <<Zero, Zero, One>> => h.val[3] = One
    /\ Finished("transformPoint3D") =>
          LET p == call.args[1]
              h == applyToVector(A0, <<p.x, p.y, p.z, One>>)
          IN /\ pc = "returned"
             /\ h.kind = "ok"
             /\ res.val = [x |-> h.val[1], y |-> h.val[2], z |-> h.val[3]]
             /\ A0[4] = <<Zero, Zero, Zero, One>> => h.val[4] = One

C17_Witness ==
    /\ Returned("transformPoint3D")
    /\ A0[4] = <<Zero, Zero, Zero, One>> /\ A0[1][2] # Zero /\ A0[1][3] # Zero
    /\ call.args[1] = [x |-> One, y |-> Q(-MaxVal), z |-> One]
    /\ res.val.x # call.args[1].x /\ res.val.z # call.args[1].z

C17_WitnessGeneral2D ==
    /\ Returned("transformPoint2D")
    /\ A0 = CountMat(3, 3, 1)
    /\ call.args[1] = [x |-> One, y |-> One]
    /\ res.val = [x |-> Q(6), y |-> Q(15)]

\* The n x 1 column matrix of a vector.
ColumnOf(v) == [i \in 1..Len(v) |-> <<v[i]>>]

\* C18: applyToVector(M, v) fails exactly when multiply(M, C) fails, C the
\* column matrix of v, and with the same error; when M is m x n and v has
\* length n it returns the vector of length m that is the single column of
\* multiply(M, C).
C18_ApplyToVectorIsColumnProduct ==
    Finished("applyToVector") =>
        LET r == multiply(A0, ColumnOf(V0))
        IN /\ (pc = "thrown") <=> (r.kind # "ok")
           /\ pc = "thrown" => res.kind = r.kind
           /\ Cols(A0) = Len(V0) => pc = "returned"
           /\ pc = "returned" =>
                /\ res.kind = "vector"
                /\ Len(ResultValue) = Rows(A0)
                /\ \A i \in 1..Rows(A0) : r.val[i] = <<ResultValue[i]>>

C18_Witness ==
    /\ Returned("applyToVector")
    /\ Rows(A0) = 2 /\ Cols(A0) = 3
    /\ V0 = CountVec(3, 1)
    /\ ResultValue = <<Q(14), Q(32)>>

C18_WitnessThrown ==
    /\ Finished("applyToVector") /\ Thrown("DimensionMismatch")
    /\ Rows(A0) = Len(V0) /\ Cols(A0) # Len(V0)

(***************************************************************************)
(* Vectors                                                                 *)
(***************************************************************************)
\* One operand is a Vector2 and the other a Vector3.
MixedDimensions == isVector3(call.args[1]) # isVector3(call.args[2])

\* C19: add, subtract, dot, distance, lerp and project signal a
\* DimensionMismatch error when one operand is a Vector2 and the other a
\* Vector3, and return no result.
C19_MixedDimensionsRejected ==
    (Done /\ MixedDimensions
        /\ call.op \in {"vecAdd", "vecSubtract", "dot", "distance", "lerp", "project"}) =>
        Thrown("DimensionMismatch")

\* The components two vectors of the same dimension are compared on.
Components(v) == IF isVector3(v) THEN {"x", "y", "z"} ELSE {"x", "y"}

\* C20: equals(a, b, epsilon) returns true iff a and b have the same
\* dimension and every pair of components differs by at most epsilon (a
\* difference equal to epsilon counts as equal, so equals(a, a, 0) is true);
\* it returns false for a Vector2 and a Vector3.
C20_EqualsWithinEpsilon ==
    Finished("vecEquals") =>
        LET a == call.args[1]
            b == call.args[2]
        IN /\ pc = "returned" /\ res.kind = "boolean"
           /\ res.val = (/\ isVector3(a) = isVector3(b)
                         /\ \A c \in Components(a) : Within(a[c], b[c], call.args[3]))

ZeroVector3 == [x |-> Zero, y |-> Zero, z |-> Zero]
ZeroVector2 == [x |-> Zero, y |-> Zero]
ZeroLike(v) == IF isVector3(v) THEN ZeroVector3 ELSE ZeroVector2

\* The scalars s of the parallel pairs (a, scale(a, s)).
ParallelScalars == {Q(s) : s \in Ints} \cup {Norm(5, 1, -1), Norm(-5, 1, -1)}

\* C21: for 3D vectors a and b, cross(a, b) = scale(cross(b, a), -1), the
\* result is orthogonal to a and to b (both dot products are 0), and
\* cross(a, scale(a, s)) is the zero vector for every scalar s.
C21_CrossProductLaws ==
    Finished("cross") =>
        LET a == call.args[1]
            b == call.args[2]
        IN /\ pc = "returned" /\ res.kind = "vector3"
           /\ res.val = vecScale(cross(b, a), Q(-1))
           /\ dot(a, res.val) = Zero
           /\ dot(b, res.val) = Zero
           /\ (\E s \in ParallelScalars : b = vecScale(a, s)) => res.val = ZeroVector3

\* cross of two vectors that are not parallel, with a non-zero result.
C21_Witness ==
    /\ Returned("cross")
    /\ res.val # ZeroVector3
    /\ res.val = vecScale(cross(call.args[2], call.args[1]), Q(-1))

\* cross of a non-zero vector with a non-zero multiple of it.
C21_WitnessParallel ==
    /\ Returned("cross")
    /\ call.args[1] # ZeroVector3
    /\ call.args[2] = vecScale(call.args[1], Q(-MaxVal))
    /\ res.val = ZeroVector3

\* The angles of [0, pi]: no full turn, sine not negative.
InZeroToPi(theta) == theta.turns = 0 /\ ~NLt(theta.sin, Zero)

\* C22: normalize, project and angleBetween never throw; normalize(v)
\* returns the zero vector of v's dimension when magnitude(v) = 0;
\* project(a, b) returns the zero vector of a's dimension when b is a zero
\* vector; angleBetween(a, b) returns 0 when a or b has magnitude 0 and an
\* angle in [0, pi] otherwise.
C22_VectorGuards ==
    /\ (Done /\ call.op \in {"normalize", "project", "angleBetween"}) => pc = "returned"
    /\ (Finished("normalize") /\ magnitude(call.args[1]) = Zero) =>
            res.val = ZeroLike(call.args[1]) /\ res.kind = KindOf(call.args[1])
    /\ (Finished("project") /\ magnitude(call.args[2]) = Zero) =>
            res.val = ZeroLike(call.args[1]) /\ res.kind = KindOf(call.args[1])
    /\ Finished("angleBetween") =>
            /\ res.kind = "angle"
            /\ (magnitude(call.args[1]) = Zero \/ magnitude(call.args[2]) = Zero) =>
                    res.val = Angle(0)
            /\ InZeroToPi(res.val)

\* normalize of the Vector3 zero.
C22_Witness ==
    /\ Returned("normalize")
    /\ call.args[1] = ZeroVector3
    /\ res.val = ZeroVector3

\* project of a Vector3 onto a Vector2 zero.
C22_WitnessProject ==
    /\ Returned("project")
    /\ isVector3(call.args[1]) /\ call.args[2] = ZeroVector2
    /\ res.val = ZeroVector3

\* angleBetween of two non-zero vectors: an obtuse angle.
C22_WitnessAngle ==
    /\ Returned("angleBetween")
    /\ NLt(res.val.cos, Zero) /\ NLt(Zero, res.val.sin)

\* angleBetween with a zero operand.
C22_WitnessAngleZero ==
    /\ Returned("angleBetween")
    /\ call.args[1] = ZeroVector2 /\ call.args[2] # ZeroVector2
    /\ res.val = Angle(0)

\* The Gauss-Jordan loop of inverse from column i on, run without
\* interruption on the augmented matrix A.
RECURSIVE GaussJordanAlone(_, _)
GaussJordanAlone(A, i) ==
    LET size == Len(A)
    IN IF i > size THEN Ok([k \in 1..size |-> sliceFrom(A[k], size)])
       ELSE LET m == findPivot(A, i, i + 1, i)
                S == [A EXCEPT ![i] = A[m], ![m] = A[i]]
                pivot == S[i][i]
            IN IF belowTolerance(pivot) THEN Err("Singular", <<>>)
               ELSE LET rowI == scaleRow(S[i], pivot)
                    IN GaussJordanAlone(
                           [k \in 1..size |->
                               IF k = i THEN rowI ELSE eliminateRow(S[k], rowI, S[k][i])],
                           i + 1)

\* What inverse(A) returns or throws when it runs alone.
InverseAlone(A) ==
    LET rows == dimensions(A)[1]
        cols == dimensions(A)[2]
    IN IF rows # cols THEN Err("NotSquare", <<rows, cols>>)
       ELSE LET det == determinant(A).val
            IN IF belowTolerance(det) THEN Err("Singular", <<>>)
               ELSE IF rows = 2 THEN Ok(inverse2(A, det))
               ELSE IF rows = 3 THEN Ok(inverse3(A, det))
               ELSE GaussJordanAlone(augmentedRows(A), 1)

\* What the call c (of inverse(A) or multiply(A, A)) returns or throws
\* when it runs alone.
Alone(c) ==
    IF c.call.op = "multiply" THEN multiply(c.call.args[1], c.call.args[1])
    ELSE InverseAlone(c.call.args[1])

\* What the call c has returned or thrown.
Outcome(c) == IF c.pc = "returned" THEN Ok(ValueOf(heap, c.res.ref)) ELSE c.res

\* The calls under way: the running one and the suspended ones.
AllCalls == {Running} \cup {call.others[i] : i \in DOMAIN call.others}

\* C23: in every interleaving of the steps of concurrent calls that share
\* their input matrix, each call that has finished holds exactly the result
\* (or the error) it gives when run alone, and the shared input is unchanged.
C23_InterleavingIndependent ==
    /\ \A c \in AllCalls : c.pc \in {"returned", "thrown"} => Outcome(c) = Alone(c)
    /\ \A c \in AllCalls : ValueOf(heap, 1) = c.call.args[1]

\* Two inverse calls whose Gauss-Jordan loops overlapped (the second began
\* augmenting before the first extracted), both returned.
C23_Witness ==
    /\ \A c \in AllCalls : c.call.op = "inverse" /\ c.pc = "returned" /\ c.aug # 0
    /\ \E c \in AllCalls : \E o \in AllCalls : o.aug < c.res.ref /\ c.aug < o.aug

\* An inverse that threw Singular in its loop while a multiply returned.
C23_WitnessThrown ==
    /\ \E c \in AllCalls : c.call.op = "inverse" /\ c.pc = "thrown" /\ c.aug # 0
    /\ \E c \in AllCalls : c.call.op = "multiply" /\ c.pc = "returned"

\* The size of the augmented matrix and the magnitude of its entry (k, i).
Size == Len(heap.mats[aug])
Mag(k, i) == NAbs(Augmented[k][i])

\* The pivot row found for column col: a row from col on that is maximal in
\* that column among the rows from col on, the first such row.
PivotIsFirstMaximal ==
    /\ maxRow \in col..Size
    /\ \A k \in col..Size : ~NLt(Mag(maxRow, col), Mag(k, col))
    /\ \A k \in col..(maxRow - 1) : NLt(Mag(k, col), Mag(maxRow, col))

\* The swap puts the pivot row found at position col (and the row that was
\* there at its place), and changes no row.
SwapBringsPivot ==
    pc = "gj_swap" =>
        /\ Augmented'[col] = Augmented[maxRow]
        /\ Augmented'[maxRow] = Augmented[col]
        /\ \A k \in (1..Size) \ {col, maxRow} : Augmented'[k] = Augmented[k]
        /\ heap'.rows = heap.rows

\* A pivot below 1e-10 ends the call with Singular and nothing is divided.
SmallPivotThrows ==
    (pc = "gj_scale" /\ NLt(Mag(col, col), Tol)) =>
        /\ pc' = "thrown" /\ res'.kind = "Singular"
        /\ heap' = heap

\* C24: in inverse for n >= 4, the row swapped into position i at column i
\* is the first row among i..n-1 of maximal magnitude in column i, and a
\* maximal magnitude below 1e-10 ends the call with Singular before any
\* division by the pivot.
C24_PartialPivoting ==
    /\ [](pc = "gj_swap" => PivotIsFirstMaximal)
    /\ [](pc = "gj_scale" => \A k \in col..Size : ~NLt(Mag(col, col), Mag(k, col)))
    /\ [][SwapBringsPivot /\ SmallPivotThrows]_vars

\* A swap that moved a lower row up, the first among rows of equal magnitude.
C24_Witness ==
    /\ pc = "gj_scale" /\ maxRow > col /\ maxRow < Size
    /\ Mag(col, col) = Mag(maxRow + 1, col)

\* A swap in a column after the first.
C24_WitnessLaterColumn == pc = "gj_scale" /\ col > 1 /\ maxRow > col

\* The loop stopped by a pivot below the tolerance.
C24_WitnessSingular == Thrown("Singular") /\ aug # 0 /\ col = Size

\* The left and the right n x n block of the augmented matrix.
LeftBlock == [k \in 1..Size |-> SubSeq(Augmented[k], 1, Size)]
RightBlock == [k \in 1..Size |-> sliceFrom(Augmented[k], Size)]

\* Column j of the left block is a unit column.
UnitColumn(j) == \A k \in 1..Size : LeftBlock[k][j] = IF k = j THEN One ELSE Zero

\* The loop is under way or has ended.
InLoop == aug # 0

\* Right block * original matrix = left block, at every step of the loop;
\* the columns before col, the finished ones, are unit columns.
LoopInvariant ==
    InLoop =>
        /\ multiply(RightBlock, A0).val = LeftBlock
        /\ col \in 1..(Size + 1)
        /\ \A j \in 1..(col - 1) : UnitColumn(j)

\* The loop ran through all n columns and the right block was returned.
LoopCompleted ==
    /\ pc = "returned" /\ col = Size + 1
    /\ LeftBlock = identity(Size)
    /\ ResultValue = RightBlock
    /\ IsInverseOf(ResultValue, A0)

\* The number of steps the loop has left at most: four per unfinished
\* column (find, swap, scale, eliminate) and the extraction.
StepsLeft ==
    IF Done THEN 0
    ELSE 4 * (Size + 1 - col)
         + (IF pc = "gj_find" THEN 4 ELSE IF pc = "gj_swap" THEN 3
            ELSE IF pc = "gj_scale" THEN 2 ELSE 1)

\* Every step of the loop brings its end nearer.
LoopAdvances == InLoop => StepsLeft' < StepsLeft

\* C25 as stated: the loop invariant holds at every step, and the loop
\* always ends after n columns with left block = identity, the returned
\* right block being the inverse.
C25_LoopAlwaysCompletes ==
    /\ [](LoopInvariant)
    /\ [][LoopAdvances]_vars
    /\ []((InLoop /\ Done) => LoopCompleted)

\* C25, amended: the loop invariant holds at every step, and the loop
\* always ends: either at a column whose pivot magnitude is below 1e-10,
\* with Singular, or after n columns with left block = identity, the
\* returned right block being the inverse.
C25_LoopInvariant ==
    /\ [](LoopInvariant)
    /\ [][LoopAdvances]_vars
    /\ []((InLoop /\ Done) =>
            \/ LoopCompleted
            \/ Thrown("Singular") /\ col <= Size /\ NLt(Mag(col, col), Tol))

\* The loop completed on a matrix whose rows were swapped.
C25_Witness == InLoop /\ LoopCompleted /\ RowsWereSwapped

\* A step in mid-loop: two finished columns, the third being eliminated.
C25_WitnessMidLoop == pc = "gj_elim" /\ col = 3 /\ LeftBlock # identity(Size)

\* The rotation block of a homogeneous transform: all but the last row
\* and the last column.
RotationBlock(T) == [i \in 1..(Len(T) - 1) |-> SubSeq(T[i], 1, Len(T) - 1)]

\* The bottom row (0, .., 0, 1) of a homogeneous transform of size n.
BottomRow(n) == [j \in 1..n |-> IF j = n THEN One ELSE Zero]

\* T is a 3x3 or 4x4 homogeneous transform: its rotation block is
\* orthonormal with determinant 1 and its bottom row is (0, .., 0, 1).
WellFormedTransform(T) ==
    /\ IsSquare(T) /\ Rows(T) \in {3, 4}
    /\ T[Rows(T)] = BottomRow(Rows(T))
    /\ IsRotationWithin(RotationBlock(T), Zero)

\* C26: for a well-formed homogeneous transform T the general inverse
\* never fails and returns what the structured inverse returns:
\* inverseTransform2D(T) for a 3x3 T (adjugate path), inverseTransform3D(T)
\* for a 4x4 T (Gauss-Jordan path).
C26_StructuredInverseAgrees ==
    (Finished("inverse") /\ WellFormedTransform(A0)) =>
        /\ pc = "returned"
        /\ ResultValue = IF Rows(A0) = 3 THEN inverseTransform2D(A0)
                                         ELSE inverseTransform3D(A0)

\* The Gauss-Jordan path on a transform that rotates about two axes and
\* translates, with a row swap.
C26_Witness ==
    /\ Returned("inverse") /\ WellFormedTransform(A0) /\ Rows(A0) = 4
    /\ RowsWereSwapped
    /\ A0[1][2] # Zero /\ A0[1][3] # Zero /\ A0[1][4] # Zero
    /\ ResultValue # A0

\* The adjugate path on a 2D transform that rotates and translates.
C26_Witness2D ==
    /\ Returned("inverse") /\ WellFormedTransform(A0) /\ Rows(A0) = 3
    /\ A0[1][1] = Norm(3, 5, 0) /\ A0[1][3] # Zero /\ A0[2][3] # Zero

\* The caller's first and second matrix.
First == ValueOf(heap, 1)
Second == ValueOf(heap, 2)

\* The call under way is the last of the plan and has returned.
PlanDone == pc = "returned" /\ call.step = Len(call.plan)

\* C27: for matrices A and B of the same homogeneous size with bottom row
\* (0, .., 0, 1) and every point p, transformPoint(multiply(A, B), p) =
\* transformPoint(A, transformPoint(B, p)): the right-hand factor is
\* applied to the point first.
C27_CompositionIsSequentialApplication ==
    /\ (PlanDone /\ call.op = "transformPoint2D") =>
            res.val = transformPoint2D(First, transformPoint2D(Second, call.args[1]))
    /\ (PlanDone /\ call.op = "transformPoint3D") =>
            res.val = transformPoint3D(First, transformPoint3D(Second, call.args[1]))

\* A 2D composition whose factors do not commute: applying them in the
\* other order gives another point.
C27_Witness ==
    /\ PlanDone /\ call.op = "transformPoint2D"
    /\ res.val # transformPoint2D(Second, transformPoint2D(First, call.args[1]))
    /\ res.val # call.args[1]

\* The same in 3D.
C27_Witness3D ==
    /\ PlanDone /\ call.op = "transformPoint3D"
    /\ res.val # transformPoint3D(Second, transformPoint3D(First, call.args[1]))
    /\ res.val # call.args[1]

\* The matrices on the heap, the caller's and the returned ones.
HeapMatrices == {ValueOf(heap, m) : m \in 1..Len(heap.mats)}

\* T has the size of the caller's matrices, the bottom row (0, .., 0, 1)
\* and a top-left block that passes isValidRotationMatrix.
KeepsShape(T) ==
    /\ IsShape(T, Len(First), Len(First))
    /\ T[Len(T)] = BottomRow(Len(T))
    /\ isValidRotationMatrix(RotationBlock(T), DefaultRotationEpsilon)

\* The chain is one of multiply and inverseTransform2D / 3D calls on
\* transforms built by the library's constructors.
OnTransforms ==
    \A i \in 1..Len(call.plan) :
        call.plan[i].op \in {"multiply", "inverseTransform2D", "inverseTransform3D"}

\* C28: starting from outputs of the transform constructors, every matrix
\* a sequence of multiply (on equal sizes) and inverseTransform2D / 3D
\* calls returns has the same size, the bottom row (0, .., 0, 1) and a
\* top-left block that passes isValidRotationMatrix.
C28_ShapePreserved ==
    (OnTransforms /\ call.params = <<>>) =>
        /\ pc # "thrown"
        /\ \A T \in HeapMatrices : KeepsShape(T)

\* A 3D chain: the inverse of a product that is not a constructor output.
C28_Witness ==
    /\ OnTransforms /\ call.params = <<>> /\ PlanDone
    /\ call.op = "inverseTransform3D" /\ call.a = 3
    /\ call.plan[1] = Step("multiply", 1, 2, <<>>)
    /\ ResultValue # First /\ ResultValue # Second
    /\ ResultValue[1][1] \notin {Zero, One, NNeg(One)}

\* A 2D chain: a product with an inverse.
C28_Witness2D ==
    /\ OnTransforms /\ call.params = <<>> /\ PlanDone
    /\ Len(First) = 3
    /\ call.op = "multiply" /\ call.a = 3 /\ call.b = 2
    /\ call.plan[1] = Step("inverseTransform2D", 1, 0, <<>>)

\* C29: multiply(multiply(multiply(homogeneousRotationZ(theta),
\* translationMatrix(0, 0, d)), translationMatrix(a, 0, 0)),
\* homogeneousRotationX(alpha)) = dhTransform(a, alpha, d, theta), and the
\* rotation block of that matrix is rotationMatrixZ(theta) * rotationMatrixX(alpha).
C29_DhFactorization ==
    (PlanDone /\ call.plan = DhPlan) =>
        LET a == call.params[1]
            alpha == call.params[2]
            d == call.params[3]
            theta == call.params[4]
        IN /\ ResultValue = dhTransform(a, alpha, d, theta)
           /\ extractRotation(ResultValue) =
                  multiply(rotationMatrixZ(theta), rotationMatrixX(alpha)).val

\* A link with length, offset, twist and joint angle all different from 0.
C29_Witness ==
    /\ PlanDone /\ call.plan = DhPlan
    /\ call.params[1] # Zero /\ call.params[3] # Zero
    /\ call.params[2] = Angle(1) /\ call.params[4] = Angle(5)
    /\ ResultValue[1][4] # Zero /\ ResultValue[2][4] # Zero /\ ResultValue[3][4] # Zero

\* theta lies in [-pi/2, pi/2].
InClosedQuarterTurn(theta) == theta.turns = 0 /\ ~NLt(MathCos(theta), Zero)

\* theta lies in (-pi, pi].
WithinHalfTurn(theta) == theta.turns = 0

\* The matrix passed was built by the caller from the angles in call.args.
BuiltFromAngles == call.args # <<>>

\* C30: for every 3x3 input R, eulerFromRotationMatrix(R) returns a pitch
\* in [-pi/2, pi/2] and roll and yaw in [-pi, pi], in both branches; for an
\* input built with a pitch outside [-pi/2, pi/2] the returned triple is
\* not the triple it was built from, and re-encodes to the same matrix.
C30_PitchRange ==
    Finished("eulerFromRotationMatrix") =>
        /\ pc = "returned" /\ res.kind = "angles"
        /\ InClosedQuarterTurn(res.val[2])
        /\ WithinHalfTurn(res.val[1]) /\ WithinHalfTurn(res.val[3])
        /\ (BuiltFromAngles /\ ~InClosedQuarterTurn(call.args[2])) =>
              /\ res.val # call.args
              /\ ReEncoded(res.val) = A0

\* Built with pitch pi - atan(3/4), not in gimbal lock: the pitch comes
\* back as atan(3/4), the roll and the yaw half a turn away.
C30_Witness ==
    /\ Returned("eulerFromRotationMatrix")
    /\ BuiltFromAngles
    /\ call.args[2] = Angle(5)
    /\ res.val[2] = Angle(1)
    /\ res.val[1] # call.args[1] /\ res.val[3] # call.args[3]
    /\ res.val[3] # Angle(0)

\* Built with pitch 3 pi / 2: the gimbal-lock branch returns -pi/2.
C30_WitnessGimbalLock ==
    /\ Returned("eulerFromRotationMatrix")
    /\ BuiltFromAngles
    /\ call.args[2] = Angle(9)
    /\ res.val[2] = Angle(-3) /\ res.val[3] = Angle(0)

\* A matrix that is not a rotation: the pitch is atan2(12, 5).
C30_WitnessHandBuilt ==
    /\ Returned("eulerFromRotationMatrix")
    /\ ~BuiltFromAngles
    /\ A0[3][1] = Q(-12)
    /\ res.val[2] = [cos |-> Norm(5, 13, 0), sin |-> Norm(12, 13, 0), turns |-> 0]
====
